---- MODULE Spec2Model ----
(***************************************************************************)
(* Statement-derivation engine of the FEC reporting service: journal       *)
(* entries, the account classifier, the P&L and balance builders, the      *)
(* statement records and the account drill-down.                           *)
(*                                                                         *)
(* Decimal amounts are integers (a fixed number of currency sub-units);    *)
(* strings that the code inspects character by character (account numbers, *)
(* prefixes, ISO dates) are sequences of one-character strings.            *)
(***************************************************************************)
EXTENDS Integers, Sequences, FiniteSets, TLC

VARIABLES mapping, entries, out, pl, calculator,
          SESSIONS, session_dicts, SESSIONS_LOCK, requests, running

\* the state of the HTTP service
service == <<SESSIONS, session_dicts, SESSIONS_LOCK, requests, running>>

vars == <<mapping, entries, out, pl, calculator, service>>

(***************************************************************************)
(* Bounds of the model.                                                    *)
(***************************************************************************)
MaxEntries == 2
MaxPrefixes == 2
MaxFieldVal == 2
MaxNonZero == 2
MaxStatements == 3

\* calls made in a row on the same entries and table
MaxCalls == 3

\* requests of the clients on one session
MaxRequests == 3

(***************************************************************************)
(* Optional values: None, or a one-element sequence holding the value.     *)
(***************************************************************************)
None == <<>>
Some(v) == <<v>>

NoCategory == "None"

(***************************************************************************)
(* Characters and strings.                                                 *)
(***************************************************************************)
Chars == <<" ", "0", "1", "2", "3", "4", "5", "6", "7", "8", "9">>

CharOrd(c) == CHOOSE i \in 1..Len(Chars) : Chars[i] = c

IsSpace(c) == c = " "

RECURSIVE LStrip(_)
LStrip(s) ==
    IF s # <<>> /\ IsSpace(Head(s)) THEN LStrip(Tail(s)) ELSE s

RECURSIVE RStrip(_)
RStrip(s) ==
    IF s # <<>> /\ IsSpace(s[Len(s)])
    THEN RStrip(SubSeq(s, 1, Len(s) - 1))
    ELSE s

Strip(s) == RStrip(LStrip(s))

StartsWith(s, prefix) ==
    /\ Len(prefix) <= Len(s)
    /\ SubSeq(s, 1, Len(prefix)) = prefix

\* Python's ordering of str: by code point, a proper prefix first.
RECURSIVE StrLess(_, _)
StrLess(a, b) ==
    IF b = <<>> THEN FALSE
    ELSE IF a = <<>> THEN TRUE
    ELSE IF Head(a) # Head(b) THEN CharOrd(Head(a)) < CharOrd(Head(b))
    ELSE StrLess(Tail(a), Tail(b))

(***************************************************************************)
(* Category vocabulary of the classifier.                                  *)
(***************************************************************************)
pl_categories ==
    {"revenue", "other_revenue", "purchases", "external_charges",
     "taxes", "personnel", "other_charges", "depreciation",
     "financial_expense", "financial_income",
     "exceptional_expense", "exceptional_income", "income_tax"}

balance_categories ==
    {"fixed_assets", "inventory", "receivables", "other_receivables",
     "cash", "equity", "provisions", "financial_debt",
     "payables", "other_payables"}

asset_categories ==
    {"fixed_assets", "inventory", "receivables", "other_receivables", "cash"}

liability_categories ==
    {"equity", "provisions", "financial_debt", "payables", "other_payables"}

(***************************************************************************)
(* AccountMapper.  self.mapping is a dict: a sequence of items             *)
(* [prefix, category] with distinct prefixes, in insertion order.          *)
(***************************************************************************)
BetterMatch_AnyMatch(account, prefix, best_length) ==
    StartsWith(account, prefix)

\* the test of the loop body: account.startswith(prefix) and
\* len(prefix) > best_length
BetterMatch(account, prefix, best_length) ==
    StartsWith(account, prefix) /\ Len(prefix) > best_length

RECURSIVE CategoryLoop(_, _, _, _, _)
CategoryLoop(m, i, account, best_match, best_length) ==
    IF i > Len(m) THEN best_match
    ELSE IF BetterMatch(account, m[i].prefix, best_length)
         THEN CategoryLoop(m, i + 1, account, m[i].category, Len(m[i].prefix))
         ELSE CategoryLoop(m, i + 1, account, best_match, best_length)

get_category(m, account_num) ==
    CategoryLoop(m, 1, Strip(account_num), NoCategory, 0)

get_pl_category_Default(m, account_num) ==
    LET category == get_category(m, account_num)
    IN  IF category \in pl_categories THEN category ELSE "other_charges"

get_pl_category(m, account_num) ==
    LET category == get_category(m, account_num)
    IN  IF category \in pl_categories THEN category ELSE NoCategory

get_balance_category(m, account_num) ==
    LET category == get_category(m, account_num)
    IN  IF category \in balance_categories THEN category ELSE NoCategory

\* the class-digit fallback
DebitPositiveClass(first_digit) ==
    first_digit \in {"2", "3", "4", "5", "6"}

is_debit_positive_ClassOnly(m, account_num) ==
    LET account == Strip(account_num)
    IN  IF account = <<>> THEN TRUE ELSE DebitPositiveClass(account[1])

is_debit_positive(m, account_num) ==
    LET account == Strip(account_num)
    IN  IF account = <<>> THEN TRUE
        ELSE LET category == get_balance_category(m, account)
             IN  IF category # NoCategory /\ category \in asset_categories
                 THEN TRUE
                 ELSE IF category # NoCategory
                         /\ category \in liability_categories
                 THEN FALSE
                 ELSE DebitPositiveClass(account[1])

(***************************************************************************)
(* JournalEntry.                                                           *)
(***************************************************************************)
amount(e) == e.debit - e.credit

account_class(e) == IF e.account_num # <<>> THEN e.account_num[1] ELSE ""

fiscal_year(e) == e.date.year

effective_year_DateOnly(e) == e.date.year

effective_year(e) ==
    IF e.source_year # None THEN e.source_year[1] ELSE e.date.year

\* date.isoformat(): YYYY-MM-DD
Digit(n) == Chars[n + 2]

Pad2(n) == <<Digit((n \div 10) % 10), Digit(n % 10)>>

Pad4(n) == Pad2(n \div 100) \o Pad2(n % 100)

isoformat(d) == Pad4(d.year) \o <<"-">> \o Pad2(d.month) \o <<"-">> \o Pad2(d.day)

(***************************************************************************)
(* Dictionaries built by the loops (defaultdict): functions whose domain   *)
(* is the set of keys touched so far.                                      *)
(***************************************************************************)
EmptyDict == [k \in {} |-> 0]

DictGet(d, k, default) == IF k \in DOMAIN d THEN d[k] ELSE default

DictSet(d, k, v) == [x \in DOMAIN d \cup {k} |-> IF x = k THEN v ELSE d[x]]

(***************************************************************************)
(* Decimal values that come out of a division are exact quotients          *)
(* [num, den] in lowest terms with den > 0; a division by zero raises.     *)
(***************************************************************************)
Abs(x) == IF x < 0 THEN 0 - x ELSE x

RECURSIVE Gcd(_, _)
Gcd(a, b) == IF b = 0 THEN a ELSE Gcd(b, a % b)

Quotient(n, d) ==
    LET g == Gcd(Abs(n), Abs(d))
        sgn == IF d < 0 THEN 0 - 1 ELSE 1
    IN  [num |-> (sgn * n) \div g, den |-> (sgn * d) \div g]

Decimal(n) == [num |-> n, den |-> 1]

DivisionByZero == [error |-> "DivisionByZero"]

Raised(x) == "error" \in DOMAIN x

DecimalDiv(a, b) ==
    IF Raised(a) THEN a
    ELSE IF Raised(b) THEN b
    ELSE IF b.num = 0 THEN DivisionByZero
    ELSE Quotient(a.num * b.den, a.den * b.num)

DecimalMul(a, b) ==
    IF Raised(a) THEN a
    ELSE IF Raised(b) THEN b
    ELSE Quotient(a.num * b.num, a.den * b.den)

DecimalAdd(a, b) ==
    IF Raised(a) THEN a
    ELSE IF Raised(b) THEN b
    ELSE Quotient(a.num * b.den + b.num * a.den, a.den * b.den)

(***************************************************************************)
(* float(x) of a Decimal: the IEEE 754 binary64 number nearest to x, ties  *)
(* to even.  A float is 0 or sign * mant * 2^exp with mant a sequence of   *)
(* 53 bits, most significant first, starting with 1.  Infinities, NaN and  *)
(* subnormal numbers are out of the range of the amounts.                  *)
(***************************************************************************)
FloatZero == [sign |-> 0, mant |-> <<>>, exp |-> 0]

Zeros(n) == [i \in 1..n |-> 0]

\* the n low binary digits of a natural number, most significant first
LowBits(c, n) == [i \in 1..n |-> (c \div 2^(n - i)) % 2]

StripZeros(bits) ==
    IF \A i \in 1..Len(bits) : bits[i] = 0 THEN <<>>
    ELSE SubSeq(bits,
                CHOOSE i \in 1..Len(bits) :
                    bits[i] = 1 /\ \A j \in 1..(i - 1) : bits[j] = 0,
                Len(bits))

\* the binary digits of a natural number below 2^30
IntBits(n) == StripZeros(LowBits(n, 30))

\* the first 15 * chunks binary digits of r / den after the point, and the
\* remainder left (r < den < 2^16)
RECURSIVE FracBits(_, _, _)
FracBits(r, den, chunks) ==
    IF chunks = 0 THEN [bits |-> <<>>, rem |-> r]
    ELSE LET next == FracBits((r * 32768) % den, den, chunks - 1)
         IN  [bits |-> LowBits((r * 32768) \div den, 15) \o next.bits,
              rem |-> next.rem]

\* a + b of two digit sequences: the carry into digit i comes from a lower
\* digit where both are 1, through digits where at least one is 1
BitsAdd(a, b) ==
    LET n == 1 + (IF Len(a) > Len(b) THEN Len(a) ELSE Len(b))
        pa == Zeros(n - Len(a)) \o a
        pb == Zeros(n - Len(b)) \o b
        carry(i) == \E j \in (i + 1)..n :
                        /\ pa[j] + pb[j] = 2
                        /\ \A k \in (i + 1)..(j - 1) : pa[k] + pb[k] >= 1
        sum == [i \in 1..n |->
                    (pa[i] + pb[i] + (IF carry(i) THEN 1 ELSE 0)) % 2]
    IN  IF sum[1] = 0 THEN Tail(sum) ELSE sum

\* sign * bits * 2^exp (plus a non-zero rest below the last digit when
\* sticky) rounded to 53 digits, ties to even
RoundToFloat(sign, bits, exp, sticky) ==
    LET n == Len(bits)
    IN  IF n = 0 THEN FloatZero
        ELSE IF n <= 53
        THEN [sign |-> sign, mant |-> bits \o Zeros(53 - n),
              exp |-> exp - (53 - n)]
        ELSE LET kept == SubSeq(bits, 1, 53)
                 rest == \E i \in 55..n : bits[i] = 1
                 up == bits[54] = 1 /\ (sticky \/ rest \/ kept[53] = 1)
                 inc == IF up THEN BitsAdd(kept, <<1>>) ELSE kept
             IN  IF Len(inc) > 53
                 THEN [sign |-> sign, mant |-> SubSeq(inc, 1, 53),
                       exp |-> exp + (n - 53) + 1]
                 ELSE [sign |-> sign, mant |-> inc, exp |-> exp + (n - 53)]

float(x) ==
    IF Raised(x) THEN x
    ELSE LET a == Abs(x.num)
             frac == FracBits(a % x.den, x.den, 5)
         IN  RoundToFloat(IF x.num < 0 THEN 0 - 1 ELSE 1,
                          StripZeros(IntBits(a \div x.den) \o frac.bits),
                          0 - Len(frac.bits), frac.rem # 0)

(***************************************************************************)
(* TracedValue.                                                            *)
(***************************************************************************)
NewTracedValue == [value |-> 0, entries |-> <<>>]

TracedValue_add_ValueOnly(tv, amt, entry) ==
    [value |-> tv.value + amt, entries |-> tv.entries]

TracedValue_add(tv, amt, entry) ==
    [value |-> tv.value + amt, entries |-> Append(tv.entries, entry)]

\* TracedValue.get_trace: the exported dict.
TraceEntryDict(t) ==
    [date |-> t[1], account |-> t[2], label |-> t[3], amount |-> float(Decimal(t[4]))]

TracedValue_get_trace(tv) ==
    [value |-> float(Decimal(tv.value)),
     entry_count |-> Len(tv.entries),
     entries |-> [i \in 1..Len(tv.entries) |-> TraceEntryDict(tv.entries[i])]]

\* ProfitLoss.get_trace / BalanceSheet.get_trace
get_trace(stmt, field_name) ==
    IF field_name \in DOMAIN stmt._traces
    THEN Some(TracedValue_get_trace(stmt._traces[field_name]))
    ELSE None

(***************************************************************************)
(* ProfitLoss and its derived properties.                                  *)
(***************************************************************************)
PLFields ==
    {"revenue", "other_revenue", "purchases", "external_charges", "taxes",
     "personnel", "other_charges", "depreciation", "financial_income",
     "financial_expense", "exceptional_income", "exceptional_expense",
     "income_tax"}

\* ProfitLoss(year): every raw field at its default, no trace
NewProfitLoss(year) ==
    [year |-> year, revenue |-> 0, other_revenue |-> 0, purchases |-> 0,
     external_charges |-> 0, taxes |-> 0, personnel |-> 0,
     other_charges |-> 0, depreciation |-> 0, financial_income |-> 0,
     financial_expense |-> 0, exceptional_income |-> 0,
     exceptional_expense |-> 0, income_tax |-> 0, _traces |-> EmptyDict]

production(p) == p.revenue + p.other_revenue

total_charges(p) ==
    p.purchases + p.external_charges + p.taxes + p.personnel + p.other_charges

ebitda_NoOtherRevenue(p) == p.revenue - total_charges(p)

ebitda(p) == production(p) - total_charges(p)

ebit(p) == ebitda(p) - p.depreciation

financial_result(p) == p.financial_income - p.financial_expense

exceptional_result(p) == p.exceptional_income - p.exceptional_expense

net_income(p) ==
    ebit(p) + financial_result(p) + exceptional_result(p) - p.income_tax

ebitda_margin_RevenueGuard(p) ==
    IF p.revenue = 0 THEN Decimal(0)
    ELSE DecimalMul(DecimalDiv(Decimal(ebitda(p)), Decimal(production(p))),
                    Decimal(100))

ebitda_margin_NoGuard(p) ==
    DecimalMul(DecimalDiv(Decimal(ebitda(p)), Decimal(production(p))),
               Decimal(100))

ebitda_margin(p) ==
    IF production(p) = 0 THEN Decimal(0)
    ELSE DecimalMul(DecimalDiv(Decimal(ebitda(p)), Decimal(production(p))),
                    Decimal(100))

\* ProfitLoss.set_traced / BalanceSheet.set_traced
set_traced(stmt, field_name, traced_value) ==
    [stmt EXCEPT !._traces = DictSet(stmt._traces, field_name, traced_value)]

(***************************************************************************)
(* BalanceSheet and its derived properties.                                *)
(***************************************************************************)
BalanceFields ==
    {"fixed_assets", "inventory", "receivables", "other_receivables", "cash",
     "equity", "provisions", "financial_debt", "payables", "other_payables"}

total_assets(b) ==
    b.fixed_assets + b.inventory + b.receivables + b.other_receivables + b.cash

total_liabilities(b) ==
    b.equity + b.provisions + b.financial_debt + b.payables + b.other_payables

working_capital(b) == b.inventory + b.receivables - b.payables

net_debt(b) == b.financial_debt - b.cash

\* BalanceSheet(year): every raw field at its default, no trace
NewBalanceSheet(year) ==
    [year |-> year, fixed_assets |-> 0, inventory |-> 0, receivables |-> 0,
     other_receivables |-> 0, cash |-> 0, equity |-> 0, provisions |-> 0,
     financial_debt |-> 0, payables |-> 0, other_payables |-> 0,
     _traces |-> EmptyDict]

(***************************************************************************)
(* KPIs.  qoe_adjustments is a dict of label -> amount, kept as the        *)
(* sequence of its items in insertion order.                               *)
(***************************************************************************)
NewKPIs(year, revenue, ebitda_, ebitda_margin_, net_income_, wc, nd) ==
    [year |-> year, revenue |-> revenue, ebitda |-> ebitda_,
     ebitda_margin |-> ebitda_margin_, net_income |-> net_income_,
     dso |-> Decimal(0), dpo |-> Decimal(0), dio |-> Decimal(0),
     working_capital |-> wc, net_debt |-> nd, qoe_adjustments |-> <<>>]

\* sum(d.values()) of a dict kept as its items
RECURSIVE SumValues(_)
SumValues(items) ==
    IF items = <<>> THEN 0 ELSE Head(items).value + SumValues(Tail(items))

adjusted_ebitda_Unadjusted(k) == k.ebitda

adjusted_ebitda(k) == k.ebitda + SumValues(k.qoe_adjustments)

(***************************************************************************)
(* Filtering a list: [e for e in xs if keep(e)], keep given as the         *)
(* sequence of booleans of the elements.                                   *)
(***************************************************************************)
RECURSIVE Filter(_, _)
Filter(xs, keep) ==
    IF xs = <<>> THEN <<>>
    ELSE IF Head(keep)
         THEN <<Head(xs)>> \o Filter(Tail(xs), Tail(keep))
         ELSE Filter(Tail(xs), Tail(keep))

(***************************************************************************)
(* PLBuilder.                                                              *)
(***************************************************************************)
PLYearFilter_UpTo(e, year) == effective_year(e) <= year

\* e.effective_year == year
PLYearFilter(e, year) == effective_year(e) = year

\* the signed amount of an entry that has a P&L category
PLAmount(e) ==
    LET cls == IF e.account_num # <<>> THEN e.account_num[1] ELSE ""
    IN  IF cls = "7" THEN e.credit - e.debit ELSE e.debit - e.credit

RECURSIVE PLLoop(_, _, _, _)
PLLoop(m, year_entries, i, totals) ==
    IF i > Len(year_entries) THEN totals
    ELSE LET entry == year_entries[i]
             category == get_pl_category(m, entry.account_num)
         IN  IF category # NoCategory
             THEN PLLoop(m, year_entries, i + 1,
                         DictSet(totals, category,
                                 DictGet(totals, category, 0) + PLAmount(entry)))
             ELSE PLLoop(m, year_entries, i + 1, totals)

PLBuilder_build_Unfiltered(m, es, year) ==
    LET year_entries == es
        totals == PLLoop(m, year_entries, 1, EmptyDict)
    IN  [year |-> year,
         revenue |-> DictGet(totals, "revenue", 0),
         other_revenue |-> DictGet(totals, "other_revenue", 0),
         purchases |-> DictGet(totals, "purchases", 0),
         external_charges |-> DictGet(totals, "external_charges", 0),
         taxes |-> DictGet(totals, "taxes", 0),
         personnel |-> DictGet(totals, "personnel", 0),
         other_charges |-> DictGet(totals, "other_charges", 0),
         depreciation |-> DictGet(totals, "depreciation", 0),
         financial_income |-> DictGet(totals, "financial_income", 0),
         financial_expense |-> DictGet(totals, "financial_expense", 0),
         exceptional_income |-> DictGet(totals, "exceptional_income", 0),
         exceptional_expense |-> DictGet(totals, "exceptional_expense", 0),
         income_tax |-> DictGet(totals, "income_tax", 0),
         _traces |-> EmptyDict]

PLBuilder_build(m, es, year) ==
    LET year_entries ==
            Filter(es, [i \in 1..Len(es) |-> PLYearFilter(es[i], year)])
        totals == PLLoop(m, year_entries, 1, EmptyDict)
    IN  [year |-> year,
         revenue |-> DictGet(totals, "revenue", 0),
         other_revenue |-> DictGet(totals, "other_revenue", 0),
         purchases |-> DictGet(totals, "purchases", 0),
         external_charges |-> DictGet(totals, "external_charges", 0),
         taxes |-> DictGet(totals, "taxes", 0),
         personnel |-> DictGet(totals, "personnel", 0),
         other_charges |-> DictGet(totals, "other_charges", 0),
         depreciation |-> DictGet(totals, "depreciation", 0),
         financial_income |-> DictGet(totals, "financial_income", 0),
         financial_expense |-> DictGet(totals, "financial_expense", 0),
         exceptional_income |-> DictGet(totals, "exceptional_income", 0),
         exceptional_expense |-> DictGet(totals, "exceptional_expense", 0),
         income_tax |-> DictGet(totals, "income_tax", 0),
         _traces |-> EmptyDict]

(***************************************************************************)
(* BalanceBuilder.                                                         *)
(***************************************************************************)
BalanceYearFilter_Period(e, year) == effective_year(e) = year

\* e.effective_year <= year
BalanceYearFilter(e, year) == effective_year(e) <= year

\* the signed amount of an entry that has a balance category
BalanceAmount_DebitMinusCredit(m, e) == e.debit - e.credit
BalanceAmount(m, e) ==
    IF is_debit_positive(m, e.account_num)
    THEN e.debit - e.credit
    ELSE e.credit - e.debit

RECURSIVE BalanceLoop(_, _, _, _)
BalanceLoop(m, year_entries, i, acc) ==
    IF i > Len(year_entries) THEN acc
    ELSE LET entry == year_entries[i]
             category == get_balance_category(m, entry.account_num)
         IN  IF category # NoCategory
             THEN LET amt == BalanceAmount(m, entry)
                      entry_tuple == <<isoformat(entry.date), entry.account_num,
                                       entry.label, amt>>
                  IN  BalanceLoop(m, year_entries, i + 1,
                        [totals |-> DictSet(acc.totals, category,
                                       DictGet(acc.totals, category, 0) + amt),
                         traces |-> DictSet(acc.traces, category,
                                       TracedValue_add(
                                         DictGet(acc.traces, category,
                                                 NewTracedValue),
                                         amt, entry_tuple))])
             ELSE BalanceLoop(m, year_entries, i + 1, acc)

\* for category, traced_value in traces.items(): bs.set_traced(...)
RECURSIVE SetAllTraced(_, _, _)
SetAllTraced(bs, traces, todo) ==
    IF todo = {} THEN bs
    ELSE LET category == CHOOSE c \in todo : TRUE
         IN  SetAllTraced(set_traced(bs, category, traces[category]),
                          traces, todo \ {category})

BalanceBuilder_build(m, es, year) ==
    LET year_entries ==
            Filter(es, [i \in 1..Len(es) |-> BalanceYearFilter(es[i], year)])
        acc == BalanceLoop(m, year_entries, 1,
                           [totals |-> EmptyDict, traces |-> EmptyDict])
        totals == acc.totals
        bs ==
         [year |-> year,
         fixed_assets |-> DictGet(totals, "fixed_assets", 0),
         inventory |-> DictGet(totals, "inventory", 0),
         receivables |-> DictGet(totals, "receivables", 0),
         other_receivables |-> DictGet(totals, "other_receivables", 0),
         cash |-> DictGet(totals, "cash", 0),
         equity |-> DictGet(totals, "equity", 0),
         provisions |-> DictGet(totals, "provisions", 0),
         financial_debt |-> DictGet(totals, "financial_debt", 0),
         payables |-> DictGet(totals, "payables", 0),
         other_payables |-> DictGet(totals, "other_payables", 0),
         _traces |-> EmptyDict]
    IN  SetAllTraced(bs, acc.traces, DOMAIN acc.traces)

(***************************************************************************)
(* build_multi_year of both builders.                                      *)
(***************************************************************************)
RECURSIVE sorted_Descending(_)
sorted_Descending(S) ==
    IF S = {} THEN <<>>
    ELSE LET x == CHOOSE x \in S : \A y \in S : y <= x
         IN  <<x>> \o sorted_Descending(S \ {x})

\* sorted(set(...)) of integers
RECURSIVE sorted(_)
sorted(S) ==
    IF S = {} THEN <<>>
    ELSE LET x == CHOOSE x \in S : \A y \in S : x <= y
         IN  <<x>> \o sorted(S \ {x})

EffectiveYears(es) == {effective_year(es[i]) : i \in 1..Len(es)}

PLBuilder_build_multi_year(m, es) ==
    LET years == sorted(EffectiveYears(es))
    IN  [k \in 1..Len(years) |-> PLBuilder_build(m, es, years[k])]

BalanceBuilder_build_multi_year(m, es) ==
    LET years == sorted(EffectiveYears(es))
    IN  [k \in 1..Len(years) |-> BalanceBuilder_build(m, es, years[k])]

(***************************************************************************)
(* DetailBuilder.build_account_summary.                                    *)
(***************************************************************************)
NewAccountData == [debit |-> 0, credit |-> 0, label |-> ""]

RECURSIVE SummaryLoop(_, _, _)
SummaryLoop(es, i, aggregated) ==
    IF i > Len(es) THEN aggregated
    ELSE LET entry == es[i]
             year == fiscal_year(entry)
             account == entry.account_num
             accounts == DictGet(aggregated, year, EmptyDict)
             data == DictGet(accounts, account, NewAccountData)
             updated == [debit |-> data.debit + entry.debit,
                         credit |-> data.credit + entry.credit,
                         label |-> IF data.label = "" THEN entry.label
                                   ELSE data.label]
         IN  SummaryLoop(es, i + 1,
                 DictSet(aggregated, year, DictSet(accounts, account, updated)))

\* sorted(accounts.items()): the keys are distinct, so the order is that of
\* the account strings
RECURSIVE sorted_accounts(_)
sorted_accounts(S) ==
    IF S = {} THEN <<>>
    ELSE LET a == CHOOSE a \in S : \A b \in S : b = a \/ StrLess(a, b)
         IN  <<a>> \o sorted_accounts(S \ {a})

\* category or "Non classé"
SummaryCategory(category) ==
    IF category = NoCategory \/ category = "" THEN "Non classé" ELSE category

build_account_summary(m, es) ==
    LET aggregated == SummaryLoop(es, 1, EmptyDict)
    IN  [year \in DOMAIN aggregated |->
            LET accounts == aggregated[year]
                order == sorted_accounts(DOMAIN accounts)
            IN  [k \in 1..Len(order) |->
                    LET account == order[k]
                        data == accounts[account]
                    IN  [account |-> account,
                         label |-> data.label,
                         category |-> SummaryCategory(get_category(m, account)),
                         debit |-> data.debit,
                         credit |-> data.credit,
                         balance |-> data.debit - data.credit]]]

(***************************************************************************)
(* DetailBuilder.build_pl_detail.                                          *)
(***************************************************************************)
pl_structure ==
    <<<<"Chiffre d'affaires", "revenue">>,
      <<"Autres produits", "other_revenue">>,
      <<"Achats", "purchases">>,
      <<"Charges externes", "external_charges">>,
      <<"Impôts et taxes", "taxes">>,
      <<"Charges de personnel", "personnel">>,
      <<"Autres charges", "other_charges">>,
      <<"Dotations aux amortissements", "depreciation">>,
      <<"Charges financières", "financial_expense">>,
      <<"Produits financiers", "financial_income">>,
      <<"Charges exceptionnelles", "exceptional_expense">>,
      <<"Produits exceptionnels", "exceptional_income">>>>

\* e.fiscal_year == year
PLDetailYearFilter(e, year) == fiscal_year(e) = year

\* account_data[category][account]: debit, credit and first label
RECURSIVE PLDetailLoop(_, _, _, _)
PLDetailLoop(m, year_entries, i, account_data) ==
    IF i > Len(year_entries) THEN account_data
    ELSE LET entry == year_entries[i]
             category == get_pl_category(m, entry.account_num)
         IN  IF category # NoCategory
             THEN LET accounts == DictGet(account_data, category, EmptyDict)
                      data == DictGet(accounts, entry.account_num,
                                      NewAccountData)
                      updated ==
                          [debit |-> data.debit + entry.debit,
                           credit |-> data.credit + entry.credit,
                           label |-> IF data.label = "" THEN entry.label
                                     ELSE data.label]
                  IN  PLDetailLoop(m, year_entries, i + 1,
                          DictSet(account_data, category,
                                  DictSet(accounts, entry.account_num,
                                          updated)))
             ELSE PLDetailLoop(m, year_entries, i + 1, account_data)

\* credit - debit for the income categories, debit - credit for the others
PLDetailAmount(category, data) ==
    IF category \in {"revenue", "other_revenue", "financial_income",
                     "exceptional_income"}
    THEN data.credit - data.debit
    ELSE data.debit - data.credit

\* for account, data in sorted(account_data.get(category, {}).items())
PLDetailAccounts(category, accounts) ==
    LET keys == sorted_accounts(DOMAIN accounts)
    IN  [i \in 1..Len(keys) |->
            [account |-> keys[i], label |-> accounts[keys[i]].label,
             amount |-> PLDetailAmount(category, accounts[keys[i]])]]

\* category_total += amount
RECURSIVE PLDetailTotal(_, _)
PLDetailTotal(account_details, i) ==
    IF i > Len(account_details) THEN 0
    ELSE account_details[i].amount + PLDetailTotal(account_details, i + 1)

build_pl_detail(m, es, year) ==
    LET year_entries ==
            Filter(es, [i \in 1..Len(es) |-> PLDetailYearFilter(es[i], year)])
        account_data == PLDetailLoop(m, year_entries, 1, EmptyDict)
    IN  [k \in 1..Len(pl_structure) |->
            LET category == pl_structure[k][2]
                account_details ==
                    PLDetailAccounts(category,
                        DictGet(account_data, category, EmptyDict))
            IN  [category_label |-> pl_structure[k][1],
                 category |-> category,
                 total |-> PLDetailTotal(account_details, 1),
                 accounts |-> account_details]]

(***************************************************************************)
(* The years of a processing request: process_fec and the generate         *)
(* command keep the entries of the requested years and build the           *)
(* statements from them.  years is Optional; None and the empty list keep  *)
(* every entry.                                                            *)
(***************************************************************************)
\* if request.years: all_entries = [e for e in all_entries
\*                                  if e.fiscal_year in request.years]
FilterByYears(all_entries, years) ==
    IF years # None /\ years[1] # {}
    THEN Filter(all_entries,
                [i \in 1..Len(all_entries) |->
                    fiscal_year(all_entries[i]) \in years[1]])
    ELSE all_entries

HTTPException(status_code) == [error |-> "HTTPException",
                               status_code |-> status_code]

\* the statements of the request, or 400 when no entry is left
BuildStatements(m, session_entries, years) ==
    LET all_entries == FilterByYears(session_entries, years)
    IN  IF all_entries = <<>> THEN HTTPException(400)
        ELSE [all_entries |-> all_entries,
              pl_list |-> PLBuilder_build_multi_year(m, all_entries),
              balance_list |-> BalanceBuilder_build_multi_year(m, all_entries)]

(***************************************************************************)
(* KPICalculator.  qoe_adjustments maps a year to the dict of its          *)
(* adjustments; vat_rate is a Decimal.                                     *)
(***************************************************************************)
DAYS_IN_YEAR == Decimal(360)

DEFAULT_VAT_RATE == Quotient(120, 100)

\* KPICalculator(qoe_adjustments, vat_rate), both Optional
KPICalculator(qoe_adjustments, vat_rate) ==
    [qoe_adjustments |->
        IF qoe_adjustments = None THEN EmptyDict ELSE qoe_adjustments[1],
     vat_rate |-> IF vat_rate # None THEN vat_rate[1] ELSE DEFAULT_VAT_RATE]

\* the guards of the three ratios
DsoGuard_Always(p) == TRUE

DsoGuard(p) == p.revenue > 0

DpoGuard(p) == p.purchases > 0

DioGuard(p) == p.purchases > 0

KPICalculator_calculate(self, p, balance) ==
    LET kpis == NewKPIs(p.year, p.revenue, ebitda(p), ebitda_margin(p),
                        net_income(p), working_capital(balance),
                        net_debt(balance))
        ca_ttc == DecimalMul(Decimal(p.revenue), self.vat_rate)
        achats_ttc == DecimalMul(Decimal(p.purchases), self.vat_rate)
        dso == IF DsoGuard(p)
               THEN DecimalMul(DecimalDiv(Decimal(balance.receivables), ca_ttc),
                               DAYS_IN_YEAR)
               ELSE kpis.dso
        dpo == IF DpoGuard(p)
               THEN DecimalMul(DecimalDiv(Decimal(balance.payables), achats_ttc),
                               DAYS_IN_YEAR)
               ELSE kpis.dpo
        dio == IF DioGuard(p)
               THEN DecimalMul(DecimalDiv(Decimal(balance.inventory),
                                          Decimal(p.purchases)),
                               DAYS_IN_YEAR)
               ELSE kpis.dio
    IN  [kpis EXCEPT !.dso = dso, !.dpo = dpo, !.dio = dio,
                     !.qoe_adjustments =
                         DictGet(self.qoe_adjustments, p.year, <<>>)]

\* {b.year: b for b in xs}: the last statement of a year wins
RECURSIVE ByYear(_, _)
ByYear(xs, d) ==
    IF xs = <<>> THEN d
    ELSE ByYear(Tail(xs), DictSet(d, Head(xs).year, Head(xs)))

\* balance = balance_by_year.get(pl.year); if balance:
MatchesBalance(balance_by_year, p) == p.year \in DOMAIN balance_by_year

RECURSIVE KPIsLoop(_, _, _, _, _)
KPIsLoop(self, pl_list, balance_by_year, i, kpis_list) ==
    IF i > Len(pl_list) THEN kpis_list
    ELSE IF MatchesBalance(balance_by_year, pl_list[i])
         THEN KPIsLoop(self, pl_list, balance_by_year, i + 1,
                       Append(kpis_list,
                              KPICalculator_calculate(
                                  self, pl_list[i],
                                  balance_by_year[pl_list[i].year])))
         ELSE KPIsLoop(self, pl_list, balance_by_year, i + 1, kpis_list)

KPICalculator_calculate_multi_year_ByPosition(self, pl_list, balance_list) ==
    [i \in 1..(IF Len(pl_list) < Len(balance_list)
               THEN Len(pl_list) ELSE Len(balance_list)) |->
        KPICalculator_calculate(self, pl_list[i], balance_list[i])]

KPICalculator_calculate_multi_year(self, pl_list, balance_list) ==
    KPIsLoop(self, pl_list, ByYear(balance_list, EmptyDict), 1, <<>>)

BridgeRow(label, montant) == "Libellé" :> label @@ "Montant (k€)" :> montant

\* dict.items() of the adjustments, one bridge row each
AdjustmentRows(items) ==
    [i \in 1..Len(items) |->
        BridgeRow(items[i].key,
                  float(DecimalDiv(Decimal(items[i].value), Decimal(1000))))]

KPICalculator_build_qoe_bridge(kpis) ==
    IF kpis.qoe_adjustments = <<>> THEN <<>>
    ELSE <<BridgeRow("EBITDA Comptable",
                     float(DecimalDiv(Decimal(kpis.ebitda), Decimal(1000))))>>
         \o AdjustmentRows(kpis.qoe_adjustments)
         \o <<BridgeRow("EBITDA Ajusté",
                        float(DecimalDiv(Decimal(adjusted_ebitda(kpis)),
                                         Decimal(1000))))>>

(***************************************************************************)
(* PLBuilder.compute_variations.                                           *)
(***************************************************************************)
_pct_change_Unguarded(old, new) ==
    DecimalMul(DecimalDiv(Decimal(new - old), Decimal(Abs(old))), Decimal(100))

_pct_change(old, new) ==
    IF old = 0 THEN Decimal(0)
    ELSE DecimalMul(DecimalDiv(Decimal(new - old), Decimal(Abs(old))),
                    Decimal(100))

Variation(prev, curr) ==
    [from_year |-> prev.year,
     to_year |-> curr.year,
     revenue_delta |-> curr.revenue - prev.revenue,
     revenue_pct |-> _pct_change(prev.revenue, curr.revenue),
     ebitda_delta |-> ebitda(curr) - ebitda(prev),
     ebitda_pct |-> _pct_change(ebitda(prev), ebitda(curr)),
     net_income_delta |-> net_income(curr) - net_income(prev),
     net_income_pct |-> _pct_change(net_income(prev), net_income(curr))]

PLBuilder_compute_variations(pl_list) ==
    IF Len(pl_list) < 2 THEN <<>>
    ELSE [i \in 1..(Len(pl_list) - 1) |-> Variation(pl_list[i], pl_list[i + 1])]

(***************************************************************************)
(* VarianceBuilder.build_cost_breakdown_variance.                          *)
(***************************************************************************)
cost_items ==
    <<<<"Achats", "purchases">>, <<"Charges externes", "external_charges">>,
      <<"Impôts et taxes", "taxes">>, <<"Personnel", "personnel">>,
      <<"Autres charges", "other_charges">>,
      <<"Amortissements", "depreciation">>>>

CostRow(label, attr, pl_prev, pl_curr) ==
    LET prev_val == pl_prev[attr]
        curr_val == pl_curr[attr]
        var_abs == curr_val - prev_val
        var_pct == IF prev_val # 0
                   THEN DecimalMul(DecimalDiv(Decimal(var_abs),
                                              Decimal(prev_val)),
                                   Decimal(100))
                   ELSE Decimal(0)
    IN  [label |-> label,
         prev_year |-> pl_prev.year,
         prev_value |-> float(DecimalDiv(Decimal(prev_val), Decimal(1000))),
         curr_year |-> pl_curr.year,
         curr_value |-> float(DecimalDiv(Decimal(curr_val), Decimal(1000))),
         var_abs |-> float(DecimalDiv(Decimal(var_abs), Decimal(1000))),
         var_pct |-> float(var_pct)]

VarianceBuilder_build_cost_breakdown_variance(pl_prev, pl_curr) ==
    [i \in 1..Len(cost_items) |->
        CostRow(cost_items[i][1], cost_items[i][2], pl_prev, pl_curr)]

\* build_pl_variance, build_ebitda_bridge, build_revenue_bridge: the records
\* of a bridge.  A label f"CA FY{year}" is the pair of its text and the year.
VarianceType_Strict(value) == IF value > 0 THEN "positive" ELSE "negative"

\* "positive" if value >= 0 else "negative", on a Decimal
VarianceType(value) == IF value >= 0 THEN "positive" ELSE "negative"

VarianceItem(label, value, type) ==
    [label |-> label, value |-> value, type |-> type]

pl_variance_cost_items ==
    <<<<"Achats", "purchases">>, <<"Charges externes", "external_charges">>,
      <<"Impôts et taxes", "taxes">>, <<"Personnel", "personnel">>,
      <<"Autres charges", "other_charges">>>>

\* for label, attr in cost_items: a record when the variation is not 0
RECURSIVE CostVariances(_, _, _)
CostVariances(pl_prev, pl_curr, i) ==
    IF i > Len(pl_variance_cost_items) THEN <<>>
    ELSE LET label == pl_variance_cost_items[i][1]
             attr == pl_variance_cost_items[i][2]
             prev_val == pl_prev[attr]
             curr_val == pl_curr[attr]
             var == 0 - (curr_val - prev_val)
         IN  (IF var # 0
              THEN <<VarianceItem(label, var, VarianceType(var))>>
              ELSE <<>>)
             \o CostVariances(pl_prev, pl_curr, i + 1)

VarianceBuilder_build_pl_variance(pl_prev, pl_curr) ==
    LET rev_var == pl_curr.revenue - pl_prev.revenue
        other_rev_var == pl_curr.other_revenue - pl_prev.other_revenue
    IN  <<VarianceItem(<<"CA FY", pl_prev.year>>, pl_prev.revenue, "start"),
          VarianceItem("Variation CA", rev_var, VarianceType(rev_var))>>
        \o (IF other_rev_var # 0
            THEN <<VarianceItem("Autres produits", other_rev_var,
                                VarianceType(other_rev_var))>>
            ELSE <<>>)
        \o CostVariances(pl_prev, pl_curr, 1)
        \o <<VarianceItem(<<"EBITDA FY", pl_curr.year>>, ebitda(pl_curr),
                          "end")>>

\* a Decimal quotient compared with 0
DecimalType(x) == VarianceType(x.num)

DecimalSub(a, b) == DecimalAdd(a, DecimalMul(Decimal(0 - 1), b))

\* float(x / 1000)
Thousands(x) == float(DecimalDiv(x, Decimal(1000)))

BridgeItem(label, value, cumulative, type) ==
    [label |-> label, value |-> value, cumulative |-> cumulative,
     type |-> type]

\* pl_prev.ebitda / pl_prev.production if pl_prev.production else Decimal("0")
prev_margin(pl_prev) ==
    IF production(pl_prev) # 0
    THEN DecimalDiv(Decimal(ebitda(pl_prev)), Decimal(production(pl_prev)))
    ELSE Decimal(0)

volume_effect(pl_prev, pl_curr) ==
    LET rev_change == pl_curr.revenue - pl_prev.revenue
    IN  DecimalMul(Decimal(rev_change), prev_margin(pl_prev))

price_mix_Total(pl_prev, pl_curr) ==
    Decimal(ebitda(pl_curr) - ebitda(pl_prev))

price_mix(pl_prev, pl_curr) ==
    DecimalSub(Decimal(ebitda(pl_curr) - ebitda(pl_prev)),
               volume_effect(pl_prev, pl_curr))

VarianceBuilder_build_ebitda_bridge(pl_prev, pl_curr) ==
    <<BridgeItem(<<"EBITDA ", pl_prev.year>>,
                 Thousands(Decimal(ebitda(pl_prev))),
                 Thousands(Decimal(ebitda(pl_prev))), "start"),
      BridgeItem("Effet volume",
                 Thousands(volume_effect(pl_prev, pl_curr)),
                 Thousands(DecimalAdd(Decimal(ebitda(pl_prev)),
                                      volume_effect(pl_prev, pl_curr))),
                 DecimalType(volume_effect(pl_prev, pl_curr))),
      BridgeItem("Effet prix/mix",
                 Thousands(price_mix(pl_prev, pl_curr)),
                 Thousands(Decimal(ebitda(pl_curr))),
                 DecimalType(price_mix(pl_prev, pl_curr))),
      BridgeItem(<<"EBITDA ", pl_curr.year>>,
                 Thousands(Decimal(ebitda(pl_curr))),
                 Thousands(Decimal(ebitda(pl_curr))), "end")>>

VarianceBuilder_build_revenue_bridge(pl_prev, pl_curr) ==
    <<VarianceItem(<<"CA ", pl_prev.year>>,
                   Thousands(Decimal(pl_prev.revenue)), "start"),
      VarianceItem("Variation",
                   Thousands(Decimal(pl_curr.revenue - pl_prev.revenue)),
                   IF pl_curr.revenue >= pl_prev.revenue
                   THEN "positive" ELSE "negative"),
      VarianceItem(<<"CA ", pl_curr.year>>,
                   Thousands(Decimal(pl_curr.revenue)), "end")>>

(***************************************************************************)
(* CashFlowBuilder.  balance_start is Optional.                            *)
(***************************************************************************)
\* the dict cf as first built: every component at 0
NewCashFlow(p, balance_end) ==
    [year |-> balance_end.year,
     ebitda |-> ebitda(p),
     var_receivables |-> 0, var_inventory |-> 0,
     var_payables |-> 0, var_other_wc |-> 0, var_bfr |-> 0,
     operating_cf |-> 0,
     capex |-> 0, investing_cf |-> 0,
     var_debt |-> 0, var_equity |-> 0, financing_cf |-> 0,
     net_cash_change |-> 0, cash_start |-> 0,
     cash_end |-> balance_end.cash]

WorkingCapitalVariations_PayablesNegated(cf, start, balance_end) ==
    [cf EXCEPT
        !.var_receivables = 0 - (balance_end.receivables - start.receivables),
        !.var_inventory = 0 - (balance_end.inventory - start.inventory),
        !.var_payables = 0 - (balance_end.payables - start.payables),
        !.var_other_wc =
            (0 - (balance_end.other_receivables - start.other_receivables))
            + (balance_end.other_payables - start.other_payables)]

\* the four working capital variations
WorkingCapitalVariations(cf, start, balance_end) ==
    [cf EXCEPT
        !.var_receivables = 0 - (balance_end.receivables - start.receivables),
        !.var_inventory = 0 - (balance_end.inventory - start.inventory),
        !.var_payables = balance_end.payables - start.payables,
        !.var_other_wc =
            (0 - (balance_end.other_receivables - start.other_receivables))
            + (balance_end.other_payables - start.other_payables)]

\* the branch taken with a starting balance
CashFlowWithStart(cf0, p, start, balance_end) ==
    LET cf == WorkingCapitalVariations(cf0, start, balance_end)
        var_bfr == cf.var_receivables + cf.var_inventory
                   + cf.var_payables + cf.var_other_wc
        operating_cf == ebitda(p) + var_bfr
        capex == 0 - ((balance_end.fixed_assets - start.fixed_assets)
                      + p.depreciation)
        var_debt == balance_end.financial_debt - start.financial_debt
        var_equity == balance_end.equity - start.equity - net_income(p)
        financing_cf == var_debt + var_equity
    IN  [cf EXCEPT !.var_bfr = var_bfr,
                   !.operating_cf = operating_cf,
                   !.capex = capex,
                   !.investing_cf = capex,
                   !.var_debt = var_debt,
                   !.var_equity = var_equity,
                   !.financing_cf = financing_cf,
                   !.cash_start = start.cash,
                   !.net_cash_change = operating_cf + capex + financing_cf]

CashFlowWithoutStart_Untouched(cf, p, balance_end) == cf

\* the branch taken without one
CashFlowWithoutStart(cf, p, balance_end) ==
    [cf EXCEPT !.operating_cf = ebitda(p),
               !.net_cash_change = balance_end.cash]

CashFlowBuilder_build(p, balance_start, balance_end) ==
    IF balance_start # None
    THEN CashFlowWithStart(NewCashFlow(p, balance_end), p, balance_start[1],
                           balance_end)
    ELSE CashFlowWithoutStart(NewCashFlow(p, balance_end), p, balance_end)

\* the statement years of a list, as a set
YearsOf(xs) == {xs[i].year : i \in 1..Len(xs)}

\* balance_start of the i-th year of the sorted years
PriorBalance(balance_by_year, years, i) ==
    IF i > 1
    THEN IF years[i - 1] \in DOMAIN balance_by_year
         THEN Some(balance_by_year[years[i - 1]])
         ELSE None
    ELSE None

RECURSIVE CashFlowLoop(_, _, _, _, _)
CashFlowLoop(pl_by_year, balance_by_year, years, i, cashflows) ==
    IF i > Len(years) THEN cashflows
    ELSE IF years[i] \notin DOMAIN pl_by_year
            \/ years[i] \notin DOMAIN balance_by_year
         THEN CashFlowLoop(pl_by_year, balance_by_year, years, i + 1, cashflows)
         ELSE CashFlowLoop(pl_by_year, balance_by_year, years, i + 1,
                           Append(cashflows,
                                  CashFlowBuilder_build(
                                      pl_by_year[years[i]],
                                      PriorBalance(balance_by_year, years, i),
                                      balance_by_year[years[i]])))

CashFlowBuilder_build_multi_year(pl_list, balance_list) ==
    CashFlowLoop(ByYear(pl_list, EmptyDict), ByYear(balance_list, EmptyDict),
                 sorted(YearsOf(pl_list)), 1, <<>>)

(***************************************************************************)
(* MonthlyBuilder.build_monthly_revenue: {year: {month: revenue}}, each     *)
(* dict kept as the sequence of its items in insertion order.              *)
(***************************************************************************)
ItemKeys(items) == {items[i].key : i \in 1..Len(items)}

ItemsGet(items, key, default) ==
    IF key \in ItemKeys(items)
    THEN items[CHOOSE i \in 1..Len(items) : items[i].key = key].value
    ELSE default

ItemsSet(items, key, value) ==
    IF key \in ItemKeys(items)
    THEN [i \in 1..Len(items) |->
             IF items[i].key = key THEN [key |-> key, value |-> value]
             ELSE items[i]]
    ELSE Append(items, [key |-> key, value |-> value])

RECURSIVE MonthlyRevenueLoop(_, _, _, _)
MonthlyRevenueLoop(m, es, i, monthly) ==
    IF i > Len(es) THEN monthly
    ELSE LET entry == es[i]
             category == get_pl_category(m, entry.account_num)
         IN  IF category = "revenue"
             THEN LET year == fiscal_year(entry)
                      month == entry.date.month
                      amt == entry.credit - entry.debit
                      months == ItemsGet(monthly, year, <<>>)
                  IN  MonthlyRevenueLoop(m, es, i + 1,
                          ItemsSet(monthly, year,
                              ItemsSet(months, month,
                                       ItemsGet(months, month, 0) + amt)))
             ELSE MonthlyRevenueLoop(m, es, i + 1, monthly)

MonthlyBuilder_build_monthly_revenue(m, es) ==
    MonthlyRevenueLoop(m, es, 1, <<>>)

(***************************************************************************)
(* The HTTP service: the processed bundle of a session, the summary that   *)
(* process_fec returns and the data that get_data returns.                 *)
(***************************************************************************)
\* ProcessRequest.vat_rate: float = 1.20, passed as Decimal(str(vat_rate))
REQUEST_VAT_RATE == Quotient(12, 10)

\* variance_data: empty unless there are two statements
VarianceData(pl_list) ==
    IF Len(pl_list) >= 2
    THEN [cost_breakdown |->
              VarianceBuilder_build_cost_breakdown_variance(
                  pl_list[Len(pl_list) - 1], pl_list[Len(pl_list)]),
          ebitda_bridge |->
              VarianceBuilder_build_ebitda_bridge(
                  pl_list[Len(pl_list) - 1], pl_list[Len(pl_list)])]
    ELSE EmptyDict

\* session["processed"] of lines 330-338, from the entries kept
ProcessedBundle(m, all_entries) ==
    LET pl_list == PLBuilder_build_multi_year(m, all_entries)
        balance_list == BalanceBuilder_build_multi_year(m, all_entries)
        kpi_calculator == KPICalculator(Some(EmptyDict),
                                        Some(REQUEST_VAT_RATE))
    IN  [company_name |-> "",
         pl_list |-> pl_list,
         balance_list |-> balance_list,
         kpis_list |-> KPICalculator_calculate_multi_year(
                           kpi_calculator, pl_list, balance_list),
         cashflows |-> CashFlowBuilder_build_multi_year(pl_list,
                                                        balance_list),
         monthly_revenue |->
             MonthlyBuilder_build_monthly_revenue(m, all_entries),
         variance_data |-> VarianceData(pl_list)]

\* float(kpi.dso) if kpi.dso else None
FloatOrNone(x) == IF x.num # 0 THEN float(x) ELSE None

\* the body of the response of process_fec
ProcessResponse(session_id, all_entries, processed) ==
    LET years == sorted({fiscal_year(all_entries[i]) :
                            i \in 1..Len(all_entries)})
    IN  [session_id |-> session_id,
         status |-> "processed",
         years |-> years,
         summary |->
            [years |-> years,
             pl_summary |->
                [i \in 1..Len(processed.pl_list) |->
                    LET p == processed.pl_list[i]
                    IN  [year |-> p.year,
                         revenue |-> float(Decimal(p.revenue)),
                         ebitda |-> float(Decimal(ebitda(p))),
                         ebitda_margin |-> float(ebitda_margin(p)),
                         net_income |-> float(Decimal(net_income(p)))]],
             balance_summary |->
                [i \in 1..Len(processed.balance_list) |->
                    LET bs == processed.balance_list[i]
                    IN  [year |-> bs.year,
                         total_assets |-> float(Decimal(total_assets(bs))),
                         equity |-> float(Decimal(bs.equity)),
                         net_debt |-> float(Decimal(net_debt(bs)))]],
             kpis |->
                [i \in 1..Len(processed.kpis_list) |->
                    LET kpi == processed.kpis_list[i]
                    IN  [year |-> kpi.year,
                         dso |-> FloatOrNone(kpi.dso),
                         dpo |-> FloatOrNone(kpi.dpo),
                         dio |-> FloatOrNone(kpi.dio)]]]]

\* reading an attribute that the class does not define
AttributeError(cls, name) ==
    [error |-> "AttributeError", cls |-> cls, name |-> name]

\* pl.<name>: a field or a property of ProfitLoss, as a Decimal
ProfitLoss_getattr(p, name) ==
    IF name \in PLFields THEN Decimal(p[name])
    ELSE IF name = "production" THEN Decimal(production(p))
    ELSE IF name = "total_charges" THEN Decimal(total_charges(p))
    ELSE IF name = "ebitda" THEN Decimal(ebitda(p))
    ELSE IF name = "ebit" THEN Decimal(ebit(p))
    ELSE IF name = "financial_result" THEN Decimal(financial_result(p))
    ELSE IF name = "exceptional_result" THEN Decimal(exceptional_result(p))
    ELSE IF name = "net_income" THEN Decimal(net_income(p))
    ELSE IF name = "ebitda_margin" THEN ebitda_margin(p)
    ELSE AttributeError("ProfitLoss", name)

\* bs.<name>: a field or a property of BalanceSheet
BalanceSheet_getattr(bs, name) ==
    IF name \in BalanceFields THEN Decimal(bs[name])
    ELSE IF name = "total_assets" THEN Decimal(total_assets(bs))
    ELSE IF name = "total_liabilities" THEN Decimal(total_liabilities(bs))
    ELSE IF name = "working_capital" THEN Decimal(working_capital(bs))
    ELSE IF name = "net_debt" THEN Decimal(net_debt(bs))
    ELSE AttributeError("BalanceSheet", name)

\* kpi.<name>: a field or the property of KPIs
KPIs_getattr(kpi, name) ==
    IF name \in {"dso", "dpo", "dio", "ebitda_margin"} THEN kpi[name]
    ELSE IF name \in {"revenue", "ebitda", "net_income", "working_capital",
                      "net_debt"}
    THEN Decimal(kpi[name])
    ELSE IF name = "adjusted_ebitda" THEN Decimal(adjusted_ebitda(kpi))
    ELSE AttributeError("KPIs", name)

\* the names get_data reads from each statement, in the order it reads them
GetDataPLNames ==
    <<"revenue", "purchases", "external_charges", "value_added",
      "personnel_costs", "taxes", "ebitda", "ebitda_margin", "depreciation",
      "ebit", "financial_result", "exceptional_result", "corporate_tax",
      "net_income">>

GetDataBalanceNames ==
    <<"fixed_assets", "inventory", "receivables", "cash", "total_assets",
      "equity", "provisions", "financial_debt", "trade_payables",
      "other_payables", "total_liabilities", "working_capital", "net_debt">>

GetDataKPINames ==
    <<"dso", "dpo", "dio", "cash_conversion_cycle", "ebitda_adjusted">>

\* the first exception raised while a sequence of values is built, or None
FirstRaised(values) ==
    LET raised == {i \in 1..Len(values) : Raised(values[i])}
    IN  IF raised = {} THEN None
        ELSE Some(values[CHOOSE i \in raised : \A j \in raised : i <= j])

\* one dict of the response: year and float(obj.<name>) for every name
DataRow(obj, names, getattr(_, _), convert(_)) ==
    LET values == [i \in 1..Len(names) |-> getattr(obj, names[i])]
    IN  IF FirstRaised(values) # None THEN FirstRaised(values)[1]
        ELSE [year |-> obj.year,
              fields |-> [n \in {names[i] : i \in 1..Len(names)} |->
                             convert(getattr(obj, n))]]

DataRows(objs, names, getattr(_, _), convert(_)) ==
    [i \in 1..Len(objs) |-> DataRow(objs[i], names, getattr, convert)]

\* data["monthly"][year] = [{"month": m, "revenue": float(v)} ...]
MonthlyData(monthly_revenue) ==
    [i \in 1..Len(monthly_revenue) |->
        [key |-> monthly_revenue[i].key,
         value |-> [j \in 1..Len(monthly_revenue[i].value) |->
                       [month |-> monthly_revenue[i].value[j].key,
                        revenue |-> float(Decimal(
                                       monthly_revenue[i].value[j].value))]]]]

\* the body of the response of get_data, or the exception it raises
GetDataResponse(processed) ==
    LET pl_rows == DataRows(processed.pl_list, GetDataPLNames,
                            ProfitLoss_getattr, float)
        balance_rows == DataRows(processed.balance_list, GetDataBalanceNames,
                                 BalanceSheet_getattr, float)
        kpi_rows == DataRows(processed.kpis_list, GetDataKPINames,
                             KPIs_getattr, FloatOrNone)
        raised == FirstRaised(pl_rows \o balance_rows \o kpi_rows)
    IN  IF raised # None THEN raised[1]
        ELSE [metadata |->
                 [company_name |-> processed.company_name,
                  years |-> [i \in 1..Len(processed.pl_list) |->
                                processed.pl_list[i].year]],
              pl |-> pl_rows,
              balance |-> balance_rows,
              kpis |-> kpi_rows,
              cashflows |-> <<>>,
              monthly |-> MonthlyData(processed.monthly_revenue),
              variance |-> processed.variance_data]

(***************************************************************************)
(* Inputs: years, dates, accounts, entries, classification tables.         *)
(***************************************************************************)
\* the fiscal years of the ledger
Years == {2023, 2024}

Dates == {[year |-> y, month |-> 1, day |-> 15] : y \in Years}

\* date and source_year of a ledger line: no year in the file name, or the
\* line is dated in the year after the fiscal year the file declares
DateAndSource ==
    {<<d, None>> : d \in Dates}
        \cup {<<d, Some(d.year - 1)>> : d \in {x \in Dates : x.year - 1 \in Years}}

\* debit and credit of one ledger line
DebitCredit == {<<3, 0>>, <<0, 2>>}

Acc411000 == <<"4", "1", "1", "0", "0", "0">>
Acc401000 == <<"4", "0", "1", "0", "0", "0">>
Acc701000 == <<"7", "0", "1", "0", "0", "0">>
Acc601000 == <<"6", "0", "1", "0", "0", "0">>
Acc890000 == <<"8", "9", "0", "0", "0", "0">>

BuilderAccounts == {Acc411000, Acc401000, Acc701000, Acc601000, Acc890000}

JournalEntries ==
    {[date |-> ds[1], account_num |-> a, label |-> "Ecriture",
      debit |-> dc[1], credit |-> dc[2], source_year |-> ds[2]] :
        ds \in DateAndSource, a \in BuilderAccounts, dc \in DebitCredit}

EntryLists == UNION {[1..n -> JournalEntries] : n \in 0..MaxEntries}

\* a ledger of customer, supplier and sales lines of one amount, so that
\* debits and credits can balance
LedgerAccounts == {Acc411000, Acc401000, Acc701000}

LedgerDebitCredit == {<<3, 0>>, <<0, 3>>}

LedgerEntries ==
    {[date |-> ds[1], account_num |-> a, label |-> "Ecriture",
      debit |-> dc[1], credit |-> dc[2], source_year |-> ds[2]] :
        ds \in DateAndSource, a \in LedgerAccounts, dc \in LedgerDebitCredit}

LedgerLists == UNION {[1..n -> LedgerEntries] : n \in 0..MaxEntries}
\* sales, purchase and customer lines for the detail view and the requests
DetailAccounts == {Acc701000, Acc601000, Acc411000}

DetailEntries == {e \in JournalEntries : e.account_num \in DetailAccounts}

DetailLists == UNION {[1..n -> DetailEntries] : n \in 0..MaxEntries}

\* request.years: absent, empty, or some of the years
RequestYears == {None} \cup {Some(S) : S \in SUBSET Years}
\* the ledgers of the uploaded sessions: none, a sale, a sale dated in the
\* year after its fiscal year, and a customer and a purchase line
Sale2023 ==
    [date |-> [year |-> 2023, month |-> 1, day |-> 15],
     account_num |-> Acc701000, label |-> "Ecriture", debit |-> 0,
     credit |-> 2, source_year |-> None]

LateSale2023 ==
    [date |-> [year |-> 2024, month |-> 1, day |-> 15],
     account_num |-> Acc701000, label |-> "Ecriture", debit |-> 0,
     credit |-> 2, source_year |-> Some(2023)]

Customer2023 ==
    [date |-> [year |-> 2023, month |-> 1, day |-> 15],
     account_num |-> Acc411000, label |-> "Ecriture", debit |-> 3,
     credit |-> 0, source_year |-> None]

Purchase2024 ==
    [date |-> [year |-> 2024, month |-> 1, day |-> 15],
     account_num |-> Acc601000, label |-> "Ecriture", debit |-> 3,
     credit |-> 0, source_year |-> None]

SessionLedgers ==
    {<<>>, <<Sale2023>>, <<Sale2023, LateSale2023>>,
     <<Customer2023, Sale2023, Purchase2024>>}

\* the accounts handed to the classifier on repeated calls
CallAccounts == {Acc411000, Acc890000}
Item(p, c) == [prefix |-> p, category |-> c]

\* the table the builders run with: overlapping prefixes on class 4
BuilderMapping ==
    <<Item(<<"4">>, "other_receivables"),
      Item(<<"4", "1">>, "receivables"),
      Item(<<"4", "0">>, "payables"),
      Item(<<"7", "0">>, "revenue"),
      Item(<<"6", "0">>, "purchases")>>

\* tables of the classifier on its own: every choice of at most MaxPrefixes
\* distinct prefixes, in every insertion order, with every category
MapperPrefixes == {<<"4">>, <<"4", "1">>, <<"7">>}

MapperCategories == balance_categories \cup {"revenue", "off_balance"}

MapperTables ==
    UNION {{t \in [1..n -> [prefix : MapperPrefixes, category : MapperCategories]] :
               \A i, j \in 1..n : i # j => t[i].prefix # t[j].prefix} :
           n \in 0..MaxPrefixes}

MapperAccounts ==
    {Acc411000, Acc401000, Acc701000, Acc601000, Acc890000,
     <<"1", "0", "1">>, <<"2", "1", "8">>, <<"3", "1">>, <<"5", "1", "2">>}

\* the fiscal years of the statements handed to the derived computations
StatementYears == 2022..(2021 + MaxStatements)

\* P&L statements of a year: revenue and purchases negative, zero and
\* positive, with and without depreciation
PLSamples(y) ==
    {[NewProfitLoss(y) EXCEPT !.revenue = r, !.purchases = c,
                              !.depreciation = d] :
        r \in {0 - 1, 0, 3}, c \in {0 - 1, 0, 2}, d \in {0, 1}}

\* balance sheets of a year, every field growing with k at its own rate
BalanceOf(y, k) ==
    [NewBalanceSheet(y) EXCEPT
        !.fixed_assets = 10 * k + (y - 2021),
        !.inventory = 2 * k,
        !.receivables = 3 * k + (y - 2021),
        !.other_receivables = k,
        !.cash = 5 * k + 2 * (y - 2021),
        !.equity = 7 * k + (y - 2021),
        !.financial_debt = 4 * k,
        !.payables = 6 * k + (y - 2021),
        !.other_payables = 8 * k]

BalanceSamples(y) == {BalanceOf(y, k) : k \in 0..2}

\* one statement per year for the lists
PLOfYear(y) ==
    [NewProfitLoss(y) EXCEPT !.revenue = y - 2019, !.purchases = 1,
                             !.depreciation = 1]

BalanceOfYear(y) == BalanceOf(y, 1)

\* the orders in which distinct years can appear in a list
YearOrders ==
    {s \in UNION {[1..n -> StatementYears] : n \in 0..MaxStatements} :
        \A i, j \in 1..Len(s) : i # j => s[i] # s[j]}

PLLists == {[i \in 1..Len(s) |-> PLOfYear(s[i])] : s \in YearOrders}

BalanceLists == {[i \in 1..Len(s) |-> BalanceOfYear(s[i])] : s \in YearOrders}

\* the lists PLBuilder.build_multi_year returns: ascending years
VariationPLs ==
    UNION {{[NewProfitLoss(y) EXCEPT !.revenue = r, !.purchases = c] :
                r \in {0, 3}, c \in {0, 2}} : y \in StatementYears}

VariationLists ==
    {l \in UNION {[1..n -> VariationPLs] : n \in 0..MaxStatements} :
        \A i \in 1..(Len(l) - 1) : l[i].year < l[i + 1].year}

\* the two statements a bridge compares: revenue, other revenue and
\* purchases of either sign, production 0 with and without revenue
BridgePLs(y) ==
    {[NewProfitLoss(y) EXCEPT !.revenue = r, !.other_revenue = o,
                              !.purchases = c] :
        r \in {0 - 1, 0, 3}, o \in {0, 1}, c \in {0 - 1, 0, 2}}
\* the adjustments loaded for the calculator: year -> {label: amount}
QoeAdjustments ==
    (2023 :> <<[key |-> "Loyer", value |-> 6]>>)
    @@ (2024 :> <<[key |-> "Loyer", value |-> 6],
                  [key |-> "Prime", value |-> 0 - 2]>>)

Calculators ==
    {KPICalculator(None, None),
     KPICalculator(Some(QoeAdjustments), Some(Quotient(110, 100)))}

(***************************************************************************)
(* State machine.  out holds the call made and its result.  The calls      *)
(* share no state, so a behaviour is one call on the inputs drawn by Init. *)
(***************************************************************************)
NoOut == [op |-> "none"]

\* no session uploaded and no request under way
NoService ==
    /\ SESSIONS = EmptyDict
    /\ session_dicts = EmptyDict
    /\ SESSIONS_LOCK = None
    /\ requests = <<>>
    /\ running = None

\* the builders and the drill-down over one session's entries
Init ==
    /\ mapping = BuilderMapping
    /\ entries \in EntryLists
    /\ out = NoOut
    /\ pl = NewProfitLoss(2023)
    /\ calculator = KPICalculator(None, None)
    /\ NoService

ReadEffectiveYear(i) ==
    /\ out = NoOut
    /\ out' = [op |-> "effective_year", entry |-> entries[i],
               val |-> effective_year(entries[i])]
    /\ UNCHANGED <<mapping, entries, pl, calculator, service>>

PLBuild(year) ==
    /\ out = NoOut
    /\ out' = [op |-> "PLBuilder.build", year |-> year,
               val |-> PLBuilder_build(mapping, entries, year)]
    /\ UNCHANGED <<mapping, entries, pl, calculator, service>>

BalanceBuild(year) ==
    /\ out = NoOut
    /\ out' = [op |-> "BalanceBuilder.build", year |-> year,
               val |-> BalanceBuilder_build(mapping, entries, year)]
    /\ UNCHANGED <<mapping, entries, pl, calculator, service>>

PLBuildMultiYear ==
    /\ out = NoOut
    /\ out' = [op |-> "PLBuilder.build_multi_year",
               val |-> PLBuilder_build_multi_year(mapping, entries)]
    /\ UNCHANGED <<mapping, entries, pl, calculator, service>>

BalanceBuildMultiYear ==
    /\ out = NoOut
    /\ out' = [op |-> "BalanceBuilder.build_multi_year",
               val |-> BalanceBuilder_build_multi_year(mapping, entries)]
    /\ UNCHANGED <<mapping, entries, pl, calculator, service>>

BuildAccountSummary ==
    /\ out = NoOut
    /\ out' = [op |-> "build_account_summary",
               val |-> build_account_summary(mapping, entries)]
    /\ UNCHANGED <<mapping, entries, pl, calculator, service>>

Next ==
    \/ \E i \in 1..Len(entries) : ReadEffectiveYear(i)
    \/ \E year \in Years : PLBuild(year)
    \/ \E year \in Years : BalanceBuild(year)
    \/ PLBuildMultiYear
    \/ BalanceBuildMultiYear
    \/ BuildAccountSummary

Spec == Init /\ [][Next]_vars

\* the balance sheet of a ledger whose lines can balance
InitLedger ==
    /\ mapping = BuilderMapping
    /\ entries \in LedgerLists
    /\ out = NoOut
    /\ pl = NewProfitLoss(2023)
    /\ calculator = KPICalculator(None, None)
    /\ NoService

NextLedger == \E year \in Years : BalanceBuild(year)

SpecLedger == InitLedger /\ [][NextLedger]_vars
\* the detail view and the statements of a request over one session's entries
InitDetail ==
    /\ mapping = BuilderMapping
    /\ entries \in DetailLists
    /\ out = NoOut
    /\ pl = NewProfitLoss(2023)
    /\ calculator = KPICalculator(None, None)
    /\ NoService

BuildPLDetail(year) ==
    /\ out = NoOut
    /\ out' = [op |-> "DetailBuilder.build_pl_detail", year |-> year,
               val |-> build_pl_detail(mapping, entries, year)]
    /\ UNCHANGED <<mapping, entries, pl, calculator, service>>

RequestStatements(years) ==
    /\ out = NoOut
    /\ out' = [op |-> "process_fec.statements", years |-> years,
               val |-> BuildStatements(mapping, entries, years)]
    /\ UNCHANGED <<mapping, entries, pl, calculator, service>>

NextDetail ==
    \/ \E year \in Years : BuildPLDetail(year)
    \/ \E years \in RequestYears : RequestStatements(years)

SpecDetail == InitDetail /\ [][NextDetail]_vars
\* repeated calls of the builders and the classifier on one entry list and
\* one prefix table: out.calls is the record of the calls made so far
InitCalls ==
    /\ mapping = BuilderMapping
    /\ entries \in SessionLedgers
    /\ out = [op |-> "calls", calls |-> <<>>]
    /\ pl = NewProfitLoss(2023)
    /\ calculator = KPICalculator(None, None)
    /\ NoService

Called(op, args, val) ==
    [out EXCEPT !.calls = Append(@, [op |-> op, args |-> args, val |-> val])]

CallPLBuild_Consuming(year) ==
    /\ Len(out.calls) < MaxCalls
    /\ out' = Called("PLBuilder.build", <<year>>,
                     PLBuilder_build(mapping, entries, year))
    /\ entries' = Filter(entries, [i \in 1..Len(entries) |->
                                      ~PLYearFilter(entries[i], year)])
    /\ UNCHANGED <<mapping, pl, calculator, service>>

CallPLBuild(year) ==
    /\ Len(out.calls) < MaxCalls
    /\ out' = Called("PLBuilder.build", <<year>>,
                     PLBuilder_build(mapping, entries, year))
    /\ UNCHANGED <<mapping, entries, pl, calculator, service>>

CallBalanceBuild(year) ==
    /\ Len(out.calls) < MaxCalls
    /\ out' = Called("BalanceBuilder.build", <<year>>,
                     BalanceBuilder_build(mapping, entries, year))
    /\ UNCHANGED <<mapping, entries, pl, calculator, service>>

CallGetCategory(account_num) ==
    /\ Len(out.calls) < MaxCalls
    /\ out' = Called("AccountMapper.get_category", <<account_num>>,
                     get_category(mapping, account_num))
    /\ UNCHANGED <<mapping, entries, pl, calculator, service>>

NextCalls ==
    \/ \E year \in Years : CallPLBuild(year)
    \/ \E year \in Years : CallBalanceBuild(year)
    \/ \E account_num \in CallAccounts : CallGetCategory(account_num)

SpecCalls == InitCalls /\ [][NextCalls]_vars
\* the classifier on its own
InitMapper ==
    /\ mapping \in MapperTables
    /\ entries = <<>>
    /\ out = NoOut
    /\ pl = NewProfitLoss(2023)
    /\ calculator = KPICalculator(None, None)
    /\ NoService

GetCategory(account) ==
    /\ out = NoOut
    /\ out' = [op |-> "get_category", account |-> account,
               val |-> get_category(mapping, account)]
    /\ UNCHANGED <<mapping, entries, pl, calculator, service>>

GetBalanceCategory(account) ==
    /\ out = NoOut
    /\ out' = [op |-> "get_balance_category", account |-> account,
               val |-> get_balance_category(mapping, account)]
    /\ UNCHANGED <<mapping, entries, pl, calculator, service>>

IsDebitPositive(account) ==
    /\ out = NoOut
    /\ out' = [op |-> "is_debit_positive", account |-> account,
               val |-> is_debit_positive(mapping, account)]
    /\ UNCHANGED <<mapping, entries, pl, calculator, service>>

NextMapper ==
    \/ \E a \in MapperAccounts : GetCategory(a)
    \/ \E a \in MapperAccounts : GetBalanceCategory(a)
    \/ \E a \in MapperAccounts : IsDebitPositive(a)

SpecMapper == InitMapper /\ [][NextMapper]_vars

\* one ProfitLoss record whose raw fields are assigned
FieldValues == (0 - MaxFieldVal)..MaxFieldVal

NonZeroFields(p) == {f \in PLFields : p[f] # 0}

InitPL ==
    /\ mapping = BuilderMapping
    /\ entries = <<>>
    /\ out = NoOut
    /\ pl = NewProfitLoss(2023)
    /\ calculator = KPICalculator(None, None)
    /\ NoService

SetPLField(f, v) ==
    /\ pl' = [pl EXCEPT ![f] = v]
    /\ Cardinality(NonZeroFields(pl')) <= MaxNonZero
    /\ UNCHANGED <<mapping, entries, out, calculator, service>>

NextPL == \E f \in PLFields, v \in FieldValues : SetPLField(f, v)

SpecPL == InitPL /\ [][NextPL]_vars

(***************************************************************************)
(* The derived computations: one call of the KPI calculator, the cash-flow *)
(* builder or the variance computations on statements drawn from the       *)
(* samples.                                                                *)
(***************************************************************************)
InitDerived ==
    /\ mapping = BuilderMapping
    /\ entries = <<>>
    /\ out = NoOut
    /\ pl = NewProfitLoss(2023)
    /\ calculator \in Calculators
    /\ NoService

Calculate(p, balance) ==
    /\ out = NoOut
    /\ out' = [op |-> "KPICalculator.calculate", p |-> p, balance |-> balance,
               val |-> KPICalculator_calculate(calculator, p, balance)]
    /\ UNCHANGED <<mapping, entries, pl, calculator, service>>

CalculateMultiYear(pl_list, balance_list) ==
    /\ out = NoOut
    /\ out' = [op |-> "KPICalculator.calculate_multi_year",
               pl_list |-> pl_list, balance_list |-> balance_list,
               val |-> KPICalculator_calculate_multi_year(
                           calculator, pl_list, balance_list)]
    /\ UNCHANGED <<mapping, entries, pl, calculator, service>>

BuildQoeBridge(kpis) ==
    /\ out = NoOut
    /\ out' = [op |-> "KPICalculator.build_qoe_bridge", kpis |-> kpis,
               val |-> KPICalculator_build_qoe_bridge(kpis)]
    /\ UNCHANGED <<mapping, entries, pl, calculator, service>>

CashFlowBuild(p, balance_start, balance_end) ==
    /\ out = NoOut
    /\ out' = [op |-> "CashFlowBuilder.build", p |-> p,
               balance_start |-> balance_start, balance_end |-> balance_end,
               val |-> CashFlowBuilder_build(p, balance_start, balance_end)]
    /\ UNCHANGED <<mapping, entries, pl, calculator, service>>

CashFlowBuildMultiYear(pl_list, balance_list) ==
    /\ out = NoOut
    /\ out' = [op |-> "CashFlowBuilder.build_multi_year",
               pl_list |-> pl_list, balance_list |-> balance_list,
               val |-> CashFlowBuilder_build_multi_year(pl_list, balance_list)]
    /\ UNCHANGED <<mapping, entries, pl, calculator, service>>

ComputeVariations(pl_list) ==
    /\ out = NoOut
    /\ out' = [op |-> "PLBuilder.compute_variations", pl_list |-> pl_list,
               val |-> PLBuilder_compute_variations(pl_list)]
    /\ UNCHANGED <<mapping, entries, pl, calculator, service>>

BuildCostBreakdownVariance(pl_prev, pl_curr) ==
    /\ out = NoOut
    /\ out' = [op |-> "VarianceBuilder.build_cost_breakdown_variance",
               pl_prev |-> pl_prev, pl_curr |-> pl_curr,
               val |-> VarianceBuilder_build_cost_breakdown_variance(
                           pl_prev, pl_curr)]
    /\ UNCHANGED <<mapping, entries, pl, calculator, service>>

BuildPLVariance(pl_prev, pl_curr) ==
    /\ out = NoOut
    /\ out' = [op |-> "VarianceBuilder.build_pl_variance",
               pl_prev |-> pl_prev, pl_curr |-> pl_curr,
               val |-> VarianceBuilder_build_pl_variance(pl_prev, pl_curr)]
    /\ UNCHANGED <<mapping, entries, pl, calculator, service>>

BuildEbitdaBridge(pl_prev, pl_curr) ==
    /\ out = NoOut
    /\ out' = [op |-> "VarianceBuilder.build_ebitda_bridge",
               pl_prev |-> pl_prev, pl_curr |-> pl_curr,
               val |-> VarianceBuilder_build_ebitda_bridge(pl_prev, pl_curr)]
    /\ UNCHANGED <<mapping, entries, pl, calculator, service>>

BuildRevenueBridge(pl_prev, pl_curr) ==
    /\ out = NoOut
    /\ out' = [op |-> "VarianceBuilder.build_revenue_bridge",
               pl_prev |-> pl_prev, pl_curr |-> pl_curr,
               val |-> VarianceBuilder_build_revenue_bridge(pl_prev, pl_curr)]
    /\ UNCHANGED <<mapping, entries, pl, calculator, service>>
NextDerived ==
    \/ \E y \in StatementYears :
         \E p \in PLSamples(y), balance \in BalanceSamples(y) :
            Calculate(p, balance)
    \/ \E pl_list \in PLLists, balance_list \in BalanceLists :
         CalculateMultiYear(pl_list, balance_list)
    \/ \E y \in StatementYears :
         \E p \in PLSamples(y) :
            BuildQoeBridge(KPICalculator_calculate(calculator, p,
                                                   BalanceOfYear(y)))
    \/ \E y \in StatementYears :
         \E p \in PLSamples(y), balance_end \in BalanceSamples(y) :
            \E balance_start \in
                    {None} \cup {Some(b) : b \in BalanceSamples(y - 1)} :
                CashFlowBuild(p, balance_start, balance_end)
    \/ \E pl_list \in PLLists, balance_list \in BalanceLists :
         CashFlowBuildMultiYear(pl_list, balance_list)
    \/ \E pl_list \in VariationLists : ComputeVariations(pl_list)
    \/ \E pl_prev \in {q \in PLSamples(2022) : q.revenue = 3},
           pl_curr \in {q \in PLSamples(2023) : q.revenue = 3} :
         BuildCostBreakdownVariance(pl_prev, pl_curr)
    \/ \E pl_prev \in BridgePLs(2022), pl_curr \in BridgePLs(2023) :
         BuildPLVariance(pl_prev, pl_curr)
    \/ \E pl_prev \in BridgePLs(2022), pl_curr \in BridgePLs(2023) :
         BuildEbitdaBridge(pl_prev, pl_curr)
    \/ \E pl_prev \in BridgePLs(2022), pl_curr \in BridgePLs(2023) :
         BuildRevenueBridge(pl_prev, pl_curr)

SpecDerived == InitDerived /\ [][NextDerived]_vars

(***************************************************************************)
(* The HTTP service on one uploaded session.  SESSIONS maps a session id   *)
(* to its session dict; session_dicts holds the dicts themselves, which    *)
(* live on while a handler holds a reference.  The handlers are coroutines *)
(* without a suspension point: the event loop runs one handler from its    *)
(* first line to its return before it starts another.                      *)
(***************************************************************************)
SessionId == "s1"

\* the requests of the clients: handler and years of the body
Requests ==
    {[handler |-> "process_fec", years |-> None],
     [handler |-> "process_fec", years |-> Some({2023})],
     [handler |-> "get_data", years |-> None],
     [handler |-> "delete_session", years |-> None]}

RequestLists == UNION {[1..n -> Requests] : n \in 1..MaxRequests}

\* a request received and not yet handled
NewRequest(r) ==
    [handler |-> r.handler, session_id |-> SessionId, years |-> r.years,
     pc |-> "start", session |-> None, processed |-> None,
     all_entries |-> <<>>, response |-> None]

\* upload_fec has stored the session; the requests wait for the event loop
InitApi ==
    /\ mapping = BuilderMapping
    /\ entries \in SessionLedgers
    /\ out = NoOut
    /\ pl = NewProfitLoss(2023)
    /\ calculator = KPICalculator(None, None)
    /\ SESSIONS = SessionId :> SessionId
    /\ session_dicts = SessionId :> [entries |-> entries, processed |-> None]
    /\ SESSIONS_LOCK = None
    /\ \E rs \in RequestLists :
          requests = [i \in 1..Len(rs) |-> NewRequest(rs[i])]
    /\ running = None

EventLoopRuns_Preemptive(i) == TRUE

\* the event loop runs the steps of handler i: no other handler is under way
EventLoopRuns(i) == running = None \/ running = Some(i)

\* with SESSIONS_LOCK: enter
Acquire(i) ==
    /\ EventLoopRuns(i)
    /\ requests[i].pc = "start"
    /\ SESSIONS_LOCK = None
    /\ SESSIONS_LOCK' = Some(i)
    /\ requests' = [requests EXCEPT ![i].pc = "with"]
    /\ running' = Some(i)
    /\ UNCHANGED <<mapping, entries, out, pl, calculator, SESSIONS,
                   session_dicts>>

\* session = SESSIONS.get(session_id)
Get(i) ==
    /\ EventLoopRuns(i)
    /\ requests[i].pc = "with"
    /\ requests[i].handler \in {"process_fec", "get_data"}
    /\ requests' = [requests EXCEPT
                      ![i].pc = "exit",
                      ![i].session =
                          IF requests[i].session_id \in DOMAIN SESSIONS
                          THEN Some(SESSIONS[requests[i].session_id])
                          ELSE None]
    /\ UNCHANGED <<mapping, entries, out, pl, calculator, SESSIONS,
                   session_dicts, SESSIONS_LOCK, running>>

\* session = SESSIONS.pop(session_id, None)
Pop(i) ==
    /\ EventLoopRuns(i)
    /\ requests[i].pc = "with"
    /\ requests[i].handler = "delete_session"
    /\ requests' = [requests EXCEPT
                      ![i].pc = "exit",
                      ![i].session =
                          IF requests[i].session_id \in DOMAIN SESSIONS
                          THEN Some(SESSIONS[requests[i].session_id])
                          ELSE None]
    /\ SESSIONS' = [k \in DOMAIN SESSIONS \ {requests[i].session_id} |->
                       SESSIONS[k]]
    /\ UNCHANGED <<mapping, entries, out, pl, calculator, session_dicts,
                   SESSIONS_LOCK, running>>

\* with SESSIONS_LOCK: exit
Release(i) ==
    /\ EventLoopRuns(i)
    /\ requests[i].pc = "exit"
    /\ SESSIONS_LOCK' = None
    /\ requests' = [requests EXCEPT ![i].pc = "after"]
    /\ UNCHANGED <<mapping, entries, out, pl, calculator, SESSIONS,
                   session_dicts, running>>

\* process_fec, lines 289-327: 404 without a session, 400 without entries,
\* else the statements of the entries kept
ProcessCompute(i) ==
    /\ EventLoopRuns(i)
    /\ requests[i].pc = "after"
    /\ requests[i].handler = "process_fec"
    /\ LET r == requests[i]
           all_entries ==
               FilterByYears(session_dicts[r.session[1]].entries, r.years)
       IN  IF r.session = None
           THEN /\ requests' = [requests EXCEPT
                                   ![i].pc = "done",
                                   ![i].response = HTTPException(404)]
                /\ running' = None
           ELSE IF all_entries = <<>>
           THEN /\ requests' = [requests EXCEPT
                                   ![i].pc = "done",
                                   ![i].response = HTTPException(400)]
                /\ running' = None
           ELSE /\ requests' = [requests EXCEPT
                                   ![i].pc = "store",
                                   ![i].all_entries = all_entries,
                                   ![i].processed =
                                       ProcessedBundle(mapping, all_entries)]
                /\ running' = running
    /\ UNCHANGED <<mapping, entries, out, pl, calculator, SESSIONS,
                   session_dicts, SESSIONS_LOCK>>

\* session["processed"] = {...}
ProcessStore(i) ==
    /\ EventLoopRuns(i)
    /\ requests[i].pc = "store"
    /\ session_dicts' =
           [session_dicts EXCEPT ![requests[i].session[1]].processed =
                                     Some(requests[i].processed)]
    /\ requests' = [requests EXCEPT ![i].pc = "respond"]
    /\ UNCHANGED <<mapping, entries, out, pl, calculator, SESSIONS,
                   SESSIONS_LOCK, running>>

\* lines 340-379: the summary and the response
ProcessRespond(i) ==
    /\ EventLoopRuns(i)
    /\ requests[i].pc = "respond"
    /\ requests' = [requests EXCEPT
                      ![i].pc = "done",
                      ![i].response =
                          ProcessResponse(requests[i].session_id,
                                          requests[i].all_entries,
                                          requests[i].processed)]
    /\ running' = None
    /\ UNCHANGED <<mapping, entries, out, pl, calculator, SESSIONS,
                   session_dicts, SESSIONS_LOCK>>

\* get_data, lines 389-395: 404 without a session, 400 without processed
\* data, else processed = session["processed"]
GetDataRead(i) ==
    /\ EventLoopRuns(i)
    /\ requests[i].pc = "after"
    /\ requests[i].handler = "get_data"
    /\ LET r == requests[i]
       IN  IF r.session = None
           THEN /\ requests' = [requests EXCEPT
                                   ![i].pc = "done",
                                   ![i].response = HTTPException(404)]
                /\ running' = None
           ELSE IF session_dicts[r.session[1]].processed = None
           THEN /\ requests' = [requests EXCEPT
                                   ![i].pc = "done",
                                   ![i].response = HTTPException(400)]
                /\ running' = None
           ELSE /\ requests' = [requests EXCEPT
                                   ![i].pc = "build",
                                   ![i].processed =
                                       session_dicts[r.session[1]].processed[1]]
                /\ running' = running
    /\ UNCHANGED <<mapping, entries, out, pl, calculator, SESSIONS,
                   session_dicts, SESSIONS_LOCK>>

\* lines 397-465: the data of the response; an exception ends the handler
GetDataBuild(i) ==
    /\ EventLoopRuns(i)
    /\ requests[i].pc = "build"
    /\ requests' = [requests EXCEPT
                      ![i].pc = "done",
                      ![i].response = GetDataResponse(requests[i].processed)]
    /\ running' = None
    /\ UNCHANGED <<mapping, entries, out, pl, calculator, SESSIONS,
                   session_dicts, SESSIONS_LOCK>>

\* delete_session, lines 1054-1062: the files are removed and the session
\* reported deleted, or 404
DeleteRespond(i) ==
    /\ EventLoopRuns(i)
    /\ requests[i].pc = "after"
    /\ requests[i].handler = "delete_session"
    /\ requests' = [requests EXCEPT
                      ![i].pc = "done",
                      ![i].response =
                          IF requests[i].session # None
                          THEN [status |-> "deleted",
                                session_id |-> requests[i].session_id]
                          ELSE HTTPException(404)]
    /\ running' = None
    /\ UNCHANGED <<mapping, entries, out, pl, calculator, SESSIONS,
                   session_dicts, SESSIONS_LOCK>>

NextApi ==
    \/ \E i \in 1..Len(requests) : Acquire(i)
    \/ \E i \in 1..Len(requests) : Get(i)
    \/ \E i \in 1..Len(requests) : Pop(i)
    \/ \E i \in 1..Len(requests) : Release(i)
    \/ \E i \in 1..Len(requests) : ProcessCompute(i)
    \/ \E i \in 1..Len(requests) : ProcessStore(i)
    \/ \E i \in 1..Len(requests) : ProcessRespond(i)
    \/ \E i \in 1..Len(requests) : GetDataRead(i)
    \/ \E i \in 1..Len(requests) : GetDataBuild(i)
    \/ \E i \in 1..Len(requests) : DeleteRespond(i)

SpecApi == InitApi /\ [][NextApi]_vars

(***************************************************************************)
(* Definitions used to state the properties.                               *)
(***************************************************************************)
RECURSIVE SumOver(_, _)
SumOver(S, v) ==
    IF S = {} THEN 0
    ELSE LET i == CHOOSE i \in S : TRUE
         IN  v[i] + SumOver(S \ {i}, v)

RECURSIVE SumSeq(_)
SumSeq(xs) == IF xs = <<>> THEN 0 ELSE Head(xs) + SumSeq(Tail(xs))

\* a - b of two digit sequences, a >= b: the borrow into digit i comes from
\* a lower digit where a has 0 and b has 1, through digits where a <= b
BitsSub(a, b) ==
    LET n == IF Len(a) > Len(b) THEN Len(a) ELSE Len(b)
        pa == Zeros(n - Len(a)) \o a
        pb == Zeros(n - Len(b)) \o b
        borrow(i) == \E j \in (i + 1)..n :
                        /\ pa[j] < pb[j]
                        /\ \A k \in (i + 1)..(j - 1) : pa[k] <= pb[k]
    IN  [i \in 1..n |->
            (2 + pa[i] - pb[i] - (IF borrow(i) THEN 1 ELSE 0)) % 2]

\* a < b of two digit sequences without leading zeros
BitsLess(a, b) ==
    \/ Len(a) < Len(b)
    \/ /\ Len(a) = Len(b)
       /\ \E i \in 1..Len(a) :
            /\ a[i] < b[i]
            /\ \A j \in 1..(i - 1) : a[j] = b[j]

\* x + y of two floats: the exact sum rounded to 53 digits, ties to even
FloatAdd(x, y) ==
    IF x.sign = 0 THEN y
    ELSE IF y.sign = 0 THEN x
    ELSE LET e == IF x.exp < y.exp THEN x.exp ELSE y.exp
             ax == x.mant \o Zeros(x.exp - e)
             ay == y.mant \o Zeros(y.exp - e)
             sx == StripZeros(ax)
             sy == StripZeros(ay)
         IN  IF x.sign = y.sign
             THEN RoundToFloat(x.sign, StripZeros(BitsAdd(ax, ay)), e, FALSE)
             ELSE IF sx = sy THEN FloatZero
             ELSE IF BitsLess(sx, sy)
             THEN RoundToFloat(y.sign, StripZeros(BitsSub(ay, ax)), e, FALSE)
             ELSE RoundToFloat(x.sign, StripZeros(BitsSub(ax, ay)), e, FALSE)

\* the positions of a set of indices, in increasing order
RECURSIVE InOrder(_)
InOrder(S) ==
    IF S = {} THEN <<>>
    ELSE LET i == CHOOSE i \in S : \A j \in S : i <= j
         IN  <<i>> \o InOrder(S \ {i})

Remove(xs, i) == SubSeq(xs, 1, i - 1) \o SubSeq(xs, i + 1, Len(xs))

\* the configured prefixes that are string-prefixes of the account
MatchingItems(m, account) ==
    {i \in 1..Len(m) : StartsWith(account, m[i].prefix)}

LongestMatchCategory(m, account) ==
    LET M == MatchingItems(m, account)
    IN  IF M = {} THEN NoCategory
        ELSE m[CHOOSE i \in M :
                 \A j \in M : Len(m[j].prefix) <= Len(m[i].prefix)].category

BalanceCategoryOf(m, account) ==
    IF LongestMatchCategory(m, account) \in balance_categories
    THEN LongestMatchCategory(m, account) ELSE NoCategory

PLCategoryOf(m, account) ==
    IF LongestMatchCategory(m, account) \in pl_categories
    THEN LongestMatchCategory(m, account) ELSE NoCategory

\* amount of an entry in a balance field, by the field's sign convention
SignedBalance(f, e) ==
    IF f \in asset_categories THEN e.debit - e.credit ELSE e.credit - e.debit

\* amount of an entry in the P&L, by the account's first digit
SignedPL(e) ==
    IF e.account_num[1] = "7" THEN e.credit - e.debit ELSE e.debit - e.credit

\* indices of the entries that contribute to a balance field at year end
BalanceContributors(f, year) ==
    {i \in 1..Len(entries) :
        /\ effective_year(entries[i]) <= year
        /\ BalanceCategoryOf(mapping, entries[i].account_num) = f}

\* indices of the entries that contribute to a P&L field of a year
PLContributors(f, year) ==
    {i \in 1..Len(entries) :
        /\ effective_year(entries[i]) = year
        /\ PLCategoryOf(mapping, entries[i].account_num) = f}

Unmapped(e) == MatchingItems(mapping, e.account_num) = {}

(***************************************************************************)
(* C1: every raw field of BalanceBuilder.build(entries, Y) is the sum of   *)
(* the signed amounts of exactly the entries with effective_year <= Y      *)
(* whose balance category is that field; later entries never contribute.   *)
(***************************************************************************)
C1_BalanceCumulative ==
    out.op = "BalanceBuilder.build" =>
        \A f \in BalanceFields :
            out.val[f] =
                SumOver(BalanceContributors(f, out.year),
                        [i \in 1..Len(entries) |-> SignedBalance(f, entries[i])])

\* receivables cumulated over an earlier and the current year
C1_Witness ==
    /\ out.op = "BalanceBuilder.build"
    /\ \E i, j \in 1..Len(entries) :
        /\ entries[i].account_num = Acc411000
        /\ entries[j].account_num = Acc411000
        /\ effective_year(entries[i]) < out.year
        /\ effective_year(entries[j]) = out.year
        /\ out.val.receivables = amount(entries[i]) + amount(entries[j])
        /\ out.val.receivables # amount(entries[j])

(***************************************************************************)
(* C2: every raw field of PLBuilder.build(entries, Y) is the sum, over     *)
(* exactly the entries with effective_year = Y whose P&L category is that  *)
(* field, of credit - debit for class 7 and debit - credit otherwise.      *)
(***************************************************************************)
C2_PLPeriod ==
    out.op = "PLBuilder.build" =>
        \A f \in PLFields :
            out.val[f] =
                SumOver(PLContributors(f, out.year),
                        [i \in 1..Len(entries) |-> SignedPL(entries[i])])

\* revenue of the year, with a revenue entry of another year left out
C2_Witness ==
    /\ out.op = "PLBuilder.build"
    /\ \E i, j \in 1..Len(entries) :
        /\ entries[i].account_num = Acc701000
        /\ entries[j].account_num = Acc701000
        /\ effective_year(entries[i]) < out.year
        /\ effective_year(entries[j]) = out.year
        /\ entries[j].credit > 0
        /\ out.val.revenue = entries[j].credit - entries[j].debit

C4_EffectiveYear ==
    out.op = "effective_year" =>
        /\ out.entry.source_year # None => out.val = out.entry.source_year[1]
        /\ out.entry.source_year = None => out.val = out.entry.date.year

C4_Witness ==
    /\ out.op = "effective_year"
    /\ out.entry.source_year # None
    /\ out.entry.source_year[1] # out.entry.date.year
    /\ out.val = out.entry.source_year[1]

(***************************************************************************)
(* C5: the derived summaries of a ProfitLoss agree with its raw fields,    *)
(* whatever the raw fields are and after any of them is assigned.          *)
(***************************************************************************)
C5_DerivedConsistent ==
    /\ ebitda(pl) = (pl.revenue + pl.other_revenue)
                      - (pl.purchases + pl.external_charges + pl.taxes
                         + pl.personnel + pl.other_charges)
    /\ ebit(pl) = ebitda(pl) - pl.depreciation
    /\ ebit(pl) = (pl.revenue + pl.other_revenue)
                    - (pl.purchases + pl.external_charges + pl.taxes
                       + pl.personnel + pl.other_charges)
                    - pl.depreciation
    /\ net_income(pl) = ebit(pl) + financial_result(pl)
                          + exceptional_result(pl) - pl.income_tax
    /\ net_income(pl) = ebit(pl)
                          + (pl.financial_income - pl.financial_expense)
                          + (pl.exceptional_income - pl.exceptional_expense)
                          - pl.income_tax

\* a negative raw field and a second field that separates two summaries
C5_Witness ==
    /\ pl.other_revenue < 0
    /\ pl.depreciation # 0
    /\ ebitda(pl) = pl.other_revenue
    /\ ebit(pl) # ebitda(pl)

(***************************************************************************)
(* C6: on a BalanceSheet built by BalanceBuilder.build, every attached     *)
(* trace has value = sum of the amounts of its entries = the statement     *)
(* field, and its entries are the contributing entries, as many and in     *)
(* the order they were accumulated.                                        *)
(***************************************************************************)
C6_TraceConservation ==
    out.op = "BalanceBuilder.build" =>
        \A f \in DOMAIN out.val._traces :
            LET tv == out.val._traces[f]
                order == InOrder(BalanceContributors(f, out.year))
            IN  /\ f \in BalanceFields
                /\ tv.value = SumSeq([k \in 1..Len(tv.entries) |-> tv.entries[k][4]])
                /\ tv.value = out.val[f]
                /\ get_trace(out.val, f) # None
                /\ get_trace(out.val, f)[1].entry_count = Len(order)
                /\ Len(tv.entries) = Len(order)
                /\ \A k \in 1..Len(order) :
                    tv.entries[k] =
                        <<isoformat(entries[order[k]].date),
                          entries[order[k]].account_num,
                          entries[order[k]].label,
                          SignedBalance(f, entries[order[k]])>>

\* a payables trace of two entries of two different years
C6_Witness ==
    /\ out.op = "BalanceBuilder.build"
    /\ "payables" \in DOMAIN out.val._traces
    /\ Len(out.val._traces["payables"].entries) = 2
    /\ effective_year(entries[1]) # effective_year(entries[2])
    /\ out.val.payables # 0

(***************************************************************************)
(* C7: on a ProfitLoss built by PLBuilder.build, get_trace of every raw    *)
(* field that received a contributing entry returns a trace whose value    *)
(* is the field and whose entries are the contributing entries; get_trace  *)
(* returns none only for fields without a contributing entry.              *)
(***************************************************************************)
C7_PLTraceable ==
    out.op = "PLBuilder.build" =>
        \A f \in PLFields :
            LET order == InOrder(PLContributors(f, out.year))
            IN  /\ (get_trace(out.val, f) = None) => (order = <<>>)
                /\ order # <<>> =>
                    /\ get_trace(out.val, f) # None
                    /\ get_trace(out.val, f)[1].value = float(Decimal(out.val[f]))
                    /\ get_trace(out.val, f)[1].entry_count = Len(order)

(***************************************************************************)
(* C8: is_debit_positive follows the balance category of the account when  *)
(* it has one, whatever its first digit, and the first digit otherwise.    *)
(***************************************************************************)
C8_DebitPositive ==
    out.op = "is_debit_positive" =>
        LET c == BalanceCategoryOf(mapping, out.account)
            d == out.account[1]
        IN  /\ c \in {"fixed_assets", "inventory", "receivables",
                      "other_receivables", "cash"} => out.val = TRUE
            /\ c \in {"equity", "provisions", "financial_debt", "payables",
                      "other_payables"} => out.val = FALSE
            /\ (c = NoCategory /\ d \in {"2", "3", "4", "5", "6"})
                    => out.val = TRUE
            /\ (c = NoCategory /\ d \in {"1", "7"}) => out.val = FALSE

\* a liability category on an account of class 4
C8_Witness ==
    /\ out.op = "is_debit_positive"
    /\ out.account = Acc401000
    /\ BalanceCategoryOf(mapping, out.account) = "payables"
    /\ out.val = FALSE

(***************************************************************************)
(* C9: an entry on an account that matches no configured prefix changes no *)
(* field of any ProfitLoss or BalanceSheet (built with or without it, the  *)
(* statements of every year that has another entry are identical), and it  *)
(* is present in build_account_summary, labelled as unclassified.          *)
(***************************************************************************)
C9_UnmappedExcluded ==
    \A i \in 1..Len(entries) :
        Unmapped(entries[i]) =>
            LET without == Remove(entries, i)
            IN  /\ out.op = "PLBuilder.build" =>
                    out.val = PLBuilder_build(mapping, without, out.year)
                /\ out.op = "BalanceBuilder.build" =>
                    out.val = BalanceBuilder_build(mapping, without, out.year)
                /\ out.op = "PLBuilder.build_multi_year" =>
                    \A k \in 1..Len(out.val) :
                        out.val[k].year \in EffectiveYears(without) =>
                            out.val[k] =
                                PLBuilder_build(mapping, without, out.val[k].year)
                /\ out.op = "BalanceBuilder.build_multi_year" =>
                    \A k \in 1..Len(out.val) :
                        out.val[k].year \in EffectiveYears(without) =>
                            out.val[k] =
                                BalanceBuilder_build(mapping, without,
                                                     out.val[k].year)
                /\ out.op = "build_account_summary" =>
                    /\ fiscal_year(entries[i]) \in DOMAIN out.val
                    /\ \E k \in 1..Len(out.val[fiscal_year(entries[i])]) :
                        LET row == out.val[fiscal_year(entries[i])][k]
                        IN  /\ row.account = entries[i].account_num
                            /\ row.category = "Non classé"

\* a P&L of a year that holds an unmapped entry next to a revenue entry
C9_Witness ==
    /\ out.op = "PLBuilder.build"
    /\ \E i, j \in 1..Len(entries) :
        /\ Unmapped(entries[i])
        /\ entries[i].account_num = Acc890000
        /\ effective_year(entries[i]) = out.year
        /\ entries[j].account_num = Acc701000
        /\ effective_year(entries[j]) = out.year
        /\ out.val.revenue # 0
        /\ out.val.other_charges = 0

(***************************************************************************)
(* C10: build_multi_year of both builders returns one statement per        *)
(* distinct effective_year of the entries, in strictly ascending order of  *)
(* year, so that the last element is the latest year.                      *)
(***************************************************************************)
C10_MultiYearSorted ==
    out.op \in {"PLBuilder.build_multi_year", "BalanceBuilder.build_multi_year"} =>
        LET ys == {effective_year(entries[i]) : i \in 1..Len(entries)}
        IN  /\ Len(out.val) = Cardinality(ys)
            /\ {out.val[k].year : k \in 1..Len(out.val)} = ys
            /\ \A k \in 1..(Len(out.val) - 1) :
                out.val[k].year < out.val[k + 1].year
            /\ out.val # <<>> =>
                \A y \in ys : y <= out.val[Len(out.val)].year

\* the later year comes first in the entry list
C10_Witness ==
    /\ out.op = "BalanceBuilder.build_multi_year"
    /\ Len(entries) = 2
    /\ effective_year(entries[1]) > effective_year(entries[2])
    /\ Len(out.val) = 2
    /\ out.val[1].year = effective_year(entries[2])
    /\ out.val[2].year = effective_year(entries[1])

(***************************************************************************)
(* C13: ebitda_margin of a ProfitLoss whose production is 0 is exactly 0,  *)
(* no division error occurs; otherwise it is ebitda / production * 100.    *)
(***************************************************************************)
C13_MarginGuard ==
    /\ ~Raised(ebitda_margin(pl))
    /\ pl.revenue + pl.other_revenue = 0 => ebitda_margin(pl) = Decimal(0)
    /\ pl.revenue + pl.other_revenue # 0 =>
        ebitda_margin(pl).num * (pl.revenue + pl.other_revenue)
            = ebitda_margin(pl).den * ebitda(pl) * 100

\* production is 0 although revenue is not
C13_Witness ==
    /\ pl.revenue # 0
    /\ pl.revenue + pl.other_revenue = 0
    /\ ebitda_margin(pl) = Decimal(0)

C16_NoEntriesAllZero ==
    /\ (/\ out.op = "PLBuilder.build"
        /\ \A i \in 1..Len(entries) : effective_year(entries[i]) # out.year)
       => /\ out.val.year = out.year
          /\ \A f \in PLFields : out.val[f] = 0
    /\ (/\ out.op = "BalanceBuilder.build"
        /\ \A i \in 1..Len(entries) : effective_year(entries[i]) > out.year)
       => /\ out.val.year = out.year
          /\ \A f \in BalanceFields : out.val[f] = 0

\* a P&L built for a year whose only entries, with a P&L category, belong
\* to another year
C16_Witness ==
    /\ out.op = "PLBuilder.build"
    /\ Len(entries) > 0
    /\ \A i \in 1..Len(entries) :
        /\ effective_year(entries[i]) # out.year
        /\ get_pl_category(mapping, entries[i].account_num) # NoCategory
    /\ \A f \in PLFields : out.val[f] = 0

(***************************************************************************)
(* C11: calculate_multi_year returns, in the order of pl_list, one KPIs    *)
(* record for exactly the P&L years that have a balance sheet of the same  *)
(* year, each computed from that same-year pair; the other years are left  *)
(* out.                                                                    *)
(***************************************************************************)
C11_KPIsPairedByYear ==
    out.op = "KPICalculator.calculate_multi_year" =>
        LET HasBalance(y) == y \in YearsOf(out.balance_list)
            pl_years == [i \in 1..Len(out.pl_list) |-> out.pl_list[i].year]
        IN  /\ [k \in 1..Len(out.val) |-> out.val[k].year]
                    = SelectSeq(pl_years, HasBalance)
            /\ \A k \in 1..Len(out.val) :
                \E i \in 1..Len(out.pl_list), j \in 1..Len(out.balance_list) :
                    /\ out.pl_list[i].year = out.val[k].year
                    /\ out.balance_list[j].year = out.val[k].year
                    /\ out.val[k] = KPICalculator_calculate(
                                        calculator, out.pl_list[i],
                                        out.balance_list[j])

\* three P&L years out of order, the first without a balance sheet, the
\* balance sheets in another order
C11_Witness ==
    /\ out.op = "KPICalculator.calculate_multi_year"
    /\ Len(out.pl_list) = 3
    /\ Len(out.val) = 2
    /\ out.val[1].year > out.val[2].year
    /\ out.val[1].year = out.pl_list[2].year
    /\ out.balance_list[1].year = out.val[2].year

(***************************************************************************)
(* C12: calculate computes dso = receivables / (revenue * vat_rate) * 360  *)
(* only when revenue > 0, and dpo and dio only when purchases > 0; when    *)
(* the guard fails the ratio stays exactly 0 and nothing is raised.        *)
(***************************************************************************)
C12_RatioGuards ==
    out.op = "KPICalculator.calculate" =>
        LET vat == calculator.vat_rate
            k == out.val
        IN  /\ ~Raised(k.dso) /\ ~Raised(k.dpo) /\ ~Raised(k.dio)
            /\ out.p.revenue > 0 =>
                k.dso.num * (out.p.revenue * vat.num)
                    = k.dso.den * (out.balance.receivables * 360 * vat.den)
            /\ out.p.revenue <= 0 => k.dso = Decimal(0)
            /\ out.p.purchases > 0 =>
                /\ k.dpo.num * (out.p.purchases * vat.num)
                    = k.dpo.den * (out.balance.payables * 360 * vat.den)
                /\ k.dio.num * out.p.purchases
                    = k.dio.den * (out.balance.inventory * 360)
            /\ out.p.purchases <= 0 =>
                k.dpo = Decimal(0) /\ k.dio = Decimal(0)

\* negative revenue with receivables: dso stays 0 while dpo is computed
C12_Witness ==
    /\ out.op = "KPICalculator.calculate"
    /\ out.p.revenue < 0
    /\ out.balance.receivables > 0
    /\ out.val.dso = Decimal(0)
    /\ out.p.purchases > 0
    /\ out.val.dpo # Decimal(0)

(***************************************************************************)
(* C15: every percentage change is exactly 0 when its prior-year base is   *)
(* 0: revenue_pct, ebitda_pct and net_income_pct of each adjacent pair of  *)
(* compute_variations, and var_pct of each cost line of                    *)
(* build_cost_breakdown_variance; nothing is raised.                       *)
(***************************************************************************)
C15_ZeroBasePercentage ==
    /\ out.op = "PLBuilder.compute_variations" =>
        \A k \in 1..Len(out.val) :
            LET prev == out.pl_list[k]
                var == out.val[k]
            IN  /\ ~Raised(var.revenue_pct)
                /\ ~Raised(var.ebitda_pct)
                /\ ~Raised(var.net_income_pct)
                /\ prev.revenue = 0 => var.revenue_pct = Decimal(0)
                /\ prev.revenue + prev.other_revenue
                        - (prev.purchases + prev.external_charges + prev.taxes
                           + prev.personnel + prev.other_charges) = 0
                    => var.ebitda_pct = Decimal(0)
                /\ net_income(prev) = 0 => var.net_income_pct = Decimal(0)
    /\ out.op = "VarianceBuilder.build_cost_breakdown_variance" =>
        /\ Len(out.val) = 6
        /\ \A i \in 1..Len(out.val) :
            /\ ~Raised(out.val[i].var_pct)
            /\ out.pl_prev[cost_items[i][2]] = 0
                => out.val[i].var_pct = FloatZero

\* revenue goes from 0 to 3: the delta is 3, the percentage 0
C15_Witness ==
    /\ out.op = "PLBuilder.compute_variations"
    /\ Len(out.val) = 2
    /\ out.pl_list[2].revenue = 0
    /\ out.val[2].revenue_delta = 3
    /\ out.val[2].revenue_pct = Decimal(0)
    /\ out.val[1].revenue_pct # Decimal(0)

(***************************************************************************)
(* C17: build with no starting balance returns operating_cf = pl.ebitda    *)
(* and net_cash_change = balance_end.cash, with every working-capital,     *)
(* investing and financing component and cash_start equal to 0.            *)
(***************************************************************************)
C17_NoStartingBalance ==
    (out.op = "CashFlowBuilder.build" /\ out.balance_start = None) =>
        /\ out.val.operating_cf = ebitda(out.p)
        /\ out.val.net_cash_change = out.balance_end.cash
        /\ \A c \in {"var_receivables", "var_inventory", "var_payables",
                     "var_other_wc", "var_bfr", "capex", "investing_cf",
                     "var_debt", "var_equity", "financing_cf", "cash_start"} :
                out.val[c] = 0

\* ebitda 3 and closing cash 9 with no opening balance sheet
C17_Witness ==
    /\ out.op = "CashFlowBuilder.build"
    /\ out.balance_start = None
    /\ out.val.operating_cf = 3
    /\ out.val.net_cash_change = 9
    /\ out.balance_end.receivables > 0

(***************************************************************************)
(* C18: build with a starting balance returns var_bfr = -(d receivables)   *)
(* - (d inventory) + (d payables) - (d other_receivables)                  *)
(* + (d other_payables), operating_cf = ebitda + var_bfr, capex =          *)
(* -((d fixed_assets) + depreciation) and financing_cf = (d financial_debt)*)
(* + ((d equity) - net_income), d X being balance_end.X - balance_start.X. *)
(***************************************************************************)
C18_WithStartingBalance ==
    (out.op = "CashFlowBuilder.build" /\ out.balance_start # None) =>
        LET start == out.balance_start[1]
            end == out.balance_end
            d == [f \in BalanceFields |-> end[f] - start[f]]
            bfr == (0 - d.receivables) - d.inventory + d.payables
                   - d.other_receivables + d.other_payables
        IN  /\ out.val.var_bfr = bfr
            /\ out.val.operating_cf = ebitda(out.p) + bfr
            /\ out.val.capex = 0 - (d.fixed_assets + out.p.depreciation)
            /\ out.val.financing_cf =
                d.financial_debt + (d.equity - net_income(out.p))

\* every variation non-zero, with depreciation and a non-zero net income
C18_Witness ==
    /\ out.op = "CashFlowBuilder.build"
    /\ out.balance_start # None
    /\ \A f \in BalanceFields \ {"provisions"} :
            out.balance_end[f] # out.balance_start[1][f]
    /\ out.p.depreciation # 0
    /\ net_income(out.p) # 0
    /\ out.val.var_bfr # 0
    /\ out.val.capex # 0
    /\ out.val.financing_cf # 0

(***************************************************************************)
(* C19: build_multi_year processes the years in ascending order and        *)
(* supplies None as the prior balance only for the first year: every       *)
(* record after the first is built from the balance sheet of the year      *)
(* immediately before its own in the sorted years, also when some year has *)
(* no balance sheet.                                                       *)
(***************************************************************************)
C19_ChainedPriorBalance ==
    out.op = "CashFlowBuilder.build_multi_year" =>
        LET years == sorted(YearsOf(out.pl_list))
            PLOf(y) == out.pl_list[CHOOSE i \in 1..Len(out.pl_list) :
                                        out.pl_list[i].year = y]
            BalOf(y) == out.balance_list[CHOOSE j \in 1..Len(out.balance_list) :
                                            out.balance_list[j].year = y]
        IN  /\ \A k \in 1..(Len(out.val) - 1) :
                    out.val[k].year < out.val[k + 1].year
            /\ \A k \in 2..Len(out.val) :
                LET i == CHOOSE i \in 1..Len(years) : years[i] = out.val[k].year
                IN  /\ years[i - 1] \in YearsOf(out.balance_list)
                    /\ out.val[k] = CashFlowBuilder_build(
                                        PLOf(years[i]),
                                        Some(BalOf(years[i - 1])),
                                        BalOf(years[i]))

(***************************************************************************)
(* C20 as claimed: adjusted_ebitda = ebitda + the sum of the adjustments;  *)
(* build_qoe_bridge returns the empty list without adjustments, and        *)
(* otherwise a list that starts with "EBITDA Comptable" (ebitda in         *)
(* thousands), has one record per adjustment, and ends with "EBITDA        *)
(* Ajusté" whose amount equals the first amount plus the sum of the        *)
(* adjustment amounts.                                                     *)
(***************************************************************************)
C20_BridgeAmountsAddUp ==
    out.op = "KPICalculator.build_qoe_bridge" =>
        LET adj == out.kpis.qoe_adjustments
            n == Len(adj)
            Sum[i \in 0..n] ==
                IF i = 0 THEN FloatZero
                ELSE FloatAdd(Sum[i - 1], out.val[i + 1]["Montant (k€)"])
        IN  /\ adjusted_ebitda(out.kpis)
                = out.kpis.ebitda + SumSeq([i \in 1..n |-> adj[i].value])
            /\ n = 0 => out.val = <<>>
            /\ n > 0 =>
                /\ Len(out.val) = n + 2
                /\ out.val[1] = BridgeRow("EBITDA Comptable",
                                          float(Quotient(out.kpis.ebitda, 1000)))
                /\ \A i \in 1..n : out.val[i + 1]["Libellé"] = adj[i].key
                /\ out.val[n + 2]["Libellé"] = "EBITDA Ajusté"
                /\ out.val[n + 2]["Montant (k€)"]
                    = FloatAdd(out.val[1]["Montant (k€)"], Sum[n])

(***************************************************************************)
(* C20 as amended: adjusted_ebitda = ebitda + the sum of the adjustments;  *)
(* build_qoe_bridge returns the empty list without adjustments, and        *)
(* otherwise a list that starts with "EBITDA Comptable" (ebitda in         *)
(* thousands), has one record per adjustment (its amount in thousands),    *)
(* and ends with "EBITDA Ajusté" whose amount is adjusted_ebitda in        *)
(* thousands, each amount converted to a float on its own.                 *)
(***************************************************************************)
C20_BridgeOfAdjustedEbitda ==
    out.op = "KPICalculator.build_qoe_bridge" =>
        LET adj == out.kpis.qoe_adjustments
            n == Len(adj)
            total == out.kpis.ebitda + SumSeq([i \in 1..n |-> adj[i].value])
        IN  /\ adjusted_ebitda(out.kpis) = total
            /\ n = 0 => out.val = <<>>
            /\ n > 0 =>
                /\ Len(out.val) = n + 2
                /\ out.val[1] = BridgeRow("EBITDA Comptable",
                                          float(Quotient(out.kpis.ebitda, 1000)))
                /\ \A i \in 1..n :
                    out.val[i + 1]
                        = BridgeRow(adj[i].key,
                                    float(Quotient(adj[i].value, 1000)))
                /\ out.val[n + 2] = BridgeRow("EBITDA Ajusté",
                                              float(Quotient(total, 1000)))

\* ebitda 3 with two adjustments, 6 and -2: the bridge ends on 7 (0.007)
C20_Witness ==
    /\ out.op = "KPICalculator.build_qoe_bridge"
    /\ out.kpis.ebitda = 3
    /\ Len(out.kpis.qoe_adjustments) = 2
    /\ Len(out.val) = 4
    /\ out.val[4]["Montant (k€)"] = float(Quotient(7, 1000))
    /\ out.val[4]["Montant (k€)"] # out.val[1]["Montant (k€)"]

(***************************************************************************)
(* C29: every cash-flow record returned by build reconciles cash:          *)
(* cash_start + net_cash_change = cash_end, with a starting balance and    *)
(* without one.                                                            *)
(***************************************************************************)
C29_CashReconciles ==
    out.op = "CashFlowBuilder.build" =>
        out.val.cash_start + out.val.net_cash_change = out.val.cash_end

\* the ledger lines a balance sheet of the year cumulates
CumulatedEntries(es, year) ==
    Filter(es, [i \in 1..Len(es) |-> effective_year(es[i]) <= year])

SumDebit(es) == SumSeq([i \in 1..Len(es) |-> es[i].debit])

SumCredit(es) == SumSeq([i \in 1..Len(es) |-> es[i].credit])

StatedVolumeEffect(pl_prev, pl_curr) ==
    IF production(pl_prev) = 0 THEN Quotient(0, 1)
    ELSE Quotient((pl_curr.revenue - pl_prev.revenue) * ebitda(pl_prev),
                  production(pl_prev))

\* the price/mix effect as stated: the change of EBITDA less the volume effect
StatedPriceMix(pl_prev, pl_curr) ==
    LET v == StatedVolumeEffect(pl_prev, pl_curr)
    IN  Quotient((ebitda(pl_curr) - ebitda(pl_prev)) * v.den - v.num, v.den)

BridgeOps ==
    {"VarianceBuilder.build_pl_variance",
     "VarianceBuilder.build_ebitda_bridge",
     "VarianceBuilder.build_revenue_bridge"}

\* value >= 0 of a record: a Decimal in build_pl_variance, a float elsewhere
ValueNonNegative(op, value) ==
    IF op = "VarianceBuilder.build_pl_variance" THEN value >= 0
    ELSE value.sign >= 0

\* C25: every bridge list has exactly one record of type start, its first,
\* exactly one of type end, its last, and every record in between is
\* positive when its value is >= 0 and negative when it is < 0.
C25_BridgeOrdering ==
    out.op \in BridgeOps =>
        LET b == out.val
        IN  /\ Len(b) >= 2
            /\ \A i \in 1..Len(b) : b[i].type = "start" <=> i = 1
            /\ \A i \in 1..Len(b) : b[i].type = "end" <=> i = Len(b)
            /\ \A i \in 2..(Len(b) - 1) :
                   b[i].type = IF ValueNonNegative(out.op, b[i].value)
                               THEN "positive" ELSE "negative"

\* a P&L bridge with a record of each sign and one of value 0
C25_Witness ==
    /\ out.op = "VarianceBuilder.build_pl_variance"
    /\ Len(out.val) = 5
    /\ out.val[2].value = 0 /\ out.val[2].type = "positive"
    /\ out.val[3].value > 0 /\ out.val[3].type = "positive"
    /\ out.val[4].value < 0 /\ out.val[4].type = "negative"

\* the P&L categories of the statement: the raw fields of ProfitLoss
DetailRow(detail, category) ==
    {k \in 1..Len(detail) : detail[k].category = category}

\* C26: every raw field of PLBuilder.build(entries, year) has a row in
\* build_pl_detail(entries, year) whose total, and the sum of whose account
\* lines, equal the field.
C26_DetailMatchesStatement ==
    out.op = "DetailBuilder.build_pl_detail" =>
        LET p == PLBuilder_build(mapping, entries, out.year)
        IN  \A f \in PLFields :
                /\ DetailRow(out.val, f) # {}
                /\ \A k \in DetailRow(out.val, f) :
                       /\ out.val[k].total = p[f]
                       /\ SumSeq([i \in 1..Len(out.val[k].accounts) |->
                                     out.val[k].accounts[i].amount]) = p[f]

\* C27: for every requested year Y, the ProfitLoss built from the entries
\* kept for the request equals PLBuilder.build(all entries, Y).
C27_RestrictedByEffectiveYear ==
    (out.op = "process_fec.statements" /\ out.years # None
        /\ ~Raised(out.val)) =>
        \A Y \in out.years[1] :
            /\ PLBuilder_build(mapping, out.val.all_entries, Y)
                   = PLBuilder_build(mapping, entries, Y)
            /\ \A i \in 1..Len(out.val.pl_list) :
                   out.val.pl_list[i].year = Y =>
                       out.val.pl_list[i] = PLBuilder_build(mapping, entries, Y)

\* two calls of the same operation with the same arguments gave equal results
SameResults ==
    \A i, j \in 1..Len(out.calls) :
        (out.calls[i].op = out.calls[j].op
            /\ out.calls[i].args = out.calls[j].args)
        => out.calls[i].val = out.calls[j].val

C21_NoUnknownField ==
    \A i \in 1..Len(requests) :
        (requests[i].handler = "get_data" /\ requests[i].pc = "done")
        => ~(Raised(requests[i].response)
             /\ requests[i].response.error = "AttributeError")

\* C23: a handler that is about to read or write the processed data of a
\* session holds the registry lock, and a handler that is about to compute
\* statements does not hold it.
C23_BundleUnderLock ==
    \A i \in 1..Len(requests) :
        /\ ((requests[i].handler = "process_fec"
                /\ requests[i].pc = "store")
            \/ (requests[i].handler = "get_data"
                /\ requests[i].pc = "after"
                /\ requests[i].session # None))
           => SESSIONS_LOCK = Some(i)
        /\ (requests[i].handler = "process_fec"
                /\ requests[i].pc = "after")
           => SESSIONS_LOCK # Some(i)

\* the response of request r carries statements of the session
ReturnsStatements(r) ==
    /\ r.pc = "done"
    /\ ~Raised(r.response)
    /\ r.handler \in {"process_fec", "get_data"}

\* a delete_session request on the id has succeeded
Deleted(id) ==
    \E j \in 1..Len(requests) :
        /\ requests[j].handler = "delete_session"
        /\ requests[j].session_id = id
        /\ requests[j].pc = "done"
        /\ ~Raised(requests[j].response)

\* C30: when process_fec produces the response "processed", the session is
\* in the registry and holds the bundle of that request; and no response
\* produced after delete_session has succeeded carries statements.
C30_ProcessedSessionIsRegistered ==
    [][\A i \in 1..Len(requests) :
          (requests[i].pc # "done" /\ ReturnsStatements(requests'[i])) =>
              /\ ~Deleted(requests[i].session_id)
              /\ requests[i].handler = "process_fec" =>
                    /\ requests[i].session_id \in DOMAIN SESSIONS'
                    /\ session_dicts'[SESSIONS'[requests[i].session_id]]
                           .processed = Some(requests'[i].processed)]_vars

\* a session processed, then deleted, then asked for again: 404
C30_Witness ==
    /\ Len(requests) = 3
    /\ requests[1].handler = "process_fec"
    /\ requests[1].pc = "done"
    /\ ~Raised(requests[1].response)
    /\ requests[1].response.status = "processed"
    /\ Deleted(SessionId)
    /\ requests[3].handler = "process_fec"
    /\ requests[3].pc = "done"
    /\ requests[3].response = HTTPException(404)
    /\ SessionId \notin DOMAIN SESSIONS
    /\ session_dicts[SessionId].processed = Some(requests[1].processed)

====
